---- MODULE Spec2Model ----
(***************************************************************************)
(* A model of the weaviate python client's collection layer:               *)
(*   - identifier normalisation (BaseProperty.create_valid_uuid),          *)
(*   - model introspection, schema derivation and the object codec         *)
(*     (BaseProperty, CollectionObjectModel),                              *)
(*   - the collection registry (CollectionModel.get and its compare),      *)
(*   - the gRPC query builder (_GRPC) and its metadata extraction,         *)
(*   - facade rebinding (with_tenant, with_consistency_level),             *)
(*   - decoding of stored objects (_json_to_object),                       *)
(*   - reference target names (ReferenceTo.name),                          *)
(*   - field classification and optional unwrapping on their own,          *)
(*   - models synthesized from a remote schema (get_dynamic),              *)
(* and of two operations of the legacy REST client: create_schema and      *)
(* add_references_in_batch.                                                *)
(* Python values are represented uniformly: None is the empty tuple <<>>   *)
(* and a present value v is the one-element tuple <<v>>; a str whose       *)
(* characters matter is a tuple of one-character strings; a dict is a      *)
(* function from its keys.                                                 *)
(***************************************************************************)
EXTENDS Integers, Sequences, FiniteSets, TLC

VARIABLES
    uIn, uOut, uAgain, uLog,         \* identifier normalisation: argument, result, result of a second pass, observed calls
    cmpS, cmpT, cmpRes,              \* compare(s, t): the two lists and the results of compare(s,t), compare(t,s)
    remote, lastGet,                 \* the remote schema store and the outcome of the last registry call
    defaultUuid, objs, lastOp,       \* class-level uuid default, live model instances, last facade write operation
    grpc, verbsCalled, nSearch, lastCall, \* query builder fields, verbs called on it so far, Search calls issued, last terminal call
    mdProps, mdMeta, mdOut,          \* _extract_metadata: the row's additional properties, the metadata request, the result
    facades, scopeOps,               \* the facades made so far (the first is the original) and the writes issued through them
    decObj, decWire, decOut,         \* an instance, the wire object the remote holds for it, the object decoded from that
    schemaModel, schemaOut,          \* type_to_dict: the model class and the schema properties derived
    refType, refName, refAgain,      \* ReferenceTo.name: the target, its name, the name of that name
    introModel, introRef, introPlain, unwrapIn, unwrapOut, \* field classification of a model class; _remove_optional_type: argument, result
    dynResp, dynOut, dynObj,         \* get_dynamic: the remote's answer, the outcome, an instance of the synthesized model
    lgSchema, lgPc, lgCalls, lgOutcome, \* legacy create_schema: the schema, the position in it, the REST calls made, the outcome
    brBatch, brCalls, brOutcome      \* legacy add_references_in_batch: the batch, the REST calls made, the outcome

vars == <<uIn, uOut, uAgain, uLog, cmpS, cmpT, cmpRes, remote, lastGet,
          defaultUuid, objs, lastOp, grpc, verbsCalled, nSearch, lastCall,
          mdProps, mdMeta, mdOut, facades, scopeOps, decObj, decWire, decOut,
          schemaModel, schemaOut, refType, refName, refAgain,
          introModel, introRef, introPlain, unwrapIn, unwrapOut,
          dynResp, dynOut, dynObj, lgSchema, lgPc, lgCalls, lgOutcome,
          brBatch, brCalls, brOutcome>>

uuidVars     == <<uIn, uOut, uAgain, uLog>>
compareVars  == <<cmpS, cmpT, cmpRes>>
registryVars == <<remote, lastGet>>
codecVars    == <<defaultUuid, objs, lastOp>>
queryVars    == <<grpc, verbsCalled, nSearch, lastCall>>
metadataVars == <<mdProps, mdMeta, mdOut>>
scopeVars    == <<facades, scopeOps>>
decodeVars   == <<decObj, decWire, decOut>>
schemaVars   == <<schemaModel, schemaOut>>
refVars      == <<refType, refName, refAgain>>
introVars    == <<introModel, introRef, introPlain, unwrapIn, unwrapOut>>
dynamicVars  == <<dynResp, dynOut, dynObj>>
legacyVars   == <<lgSchema, lgPc, lgCalls, lgOutcome>>
batchVars    == <<brBatch, brCalls, brOutcome>>

None == <<>>
Some(v) == <<v>>

\* All sequences over S of length at most n.
SeqUpTo(S, n) == UNION {[1..k -> S] : k \in 0..n}

Range(s) == {s[i] : i \in DOMAIN s}

(***************************************************************************)
(* Identifier normalisation                                                *)
(***************************************************************************)

\* The number of hexadecimal digits of a UUID (32 in uuid.UUID), scaled down.
UuidHexLen == 2
\* The longest identifier string tried.
MaxStrLen == 3

Pow16(n) == 16 ^ n

HexDigits == <<"0", "1", "2", "3", "4", "5", "6", "7", "8", "9", "a", "b", "c", "d", "e", "f">>

\* Symbols identifier strings are built from: hexadecimal digits in both cases,
\* the hyphen, the braces and the "urn:" prefix uuid.UUID removes, and a
\* character that is no hexadecimal digit.
UuidAlphabet == {"0", "a", "A", "-", "{", "}", "g", "urn:"}

UpperHexDigits == <<"A", "B", "C", "D", "E", "F">>

\* int(c, 16) of one character; -1 where int() raises ValueError.
HexValue(c) ==
    IF \E i \in DOMAIN HexDigits : HexDigits[i] = c
    THEN (CHOOSE i \in DOMAIN HexDigits : HexDigits[i] = c) - 1
    ELSE IF \E i \in DOMAIN UpperHexDigits : UpperHexDigits[i] = c
    THEN (CHOOSE i \in DOMAIN UpperHexDigits : UpperHexDigits[i] = c) + 9
    ELSE -1

\* A uuid.UUID object, and a plain str, as arguments of the validator.
UuidObj(n) == [kind |-> "UUID", int |-> n, str |-> <<>>]
StrObj(s)  == [kind |-> "str", int |-> 0, str |-> s]

\* str.replace(tok, ''): every occurrence of the symbol removed.
RECURSIVE Remove(_, _)
Remove(s, tok) ==
    IF s = <<>> THEN <<>>
    ELSE IF Head(s) = tok THEN Remove(Tail(s), tok)
    ELSE <<Head(s)>> \o Remove(Tail(s), tok)

\* str.strip('{}'): leading and trailing braces removed.
RECURSIVE LStrip(_)
LStrip(s) ==
    IF s # <<>> /\ Head(s) \in {"{", "}"} THEN LStrip(Tail(s)) ELSE s

RECURSIVE RStrip(_)
RStrip(s) ==
    IF s # <<>> /\ s[Len(s)] \in {"{", "}"} THEN RStrip(SubSeq(s, 1, Len(s) - 1)) ELSE s

Strip(s) == RStrip(LStrip(s))

\* What uuid.UUID(hex) keeps of its argument before reading it as a number.
UuidCleanHex(s) == Remove(Strip(Remove(s, "urn:")), "-")

RECURSIVE HexToInt(_)
HexToInt(s) ==
    IF s = <<>> THEN 0
    ELSE HexToInt(SubSeq(s, 1, Len(s) - 1)) * 16 + HexValue(s[Len(s)])

\* uuid.UUID(s) succeeds: the cleaned string has the UUID's length and int(_, 16) reads it.
ParsesAsUuid(s) ==
    LET hex == UuidCleanHex(s)
    IN  Len(hex) = UuidHexLen /\ \A i \in DOMAIN hex : HexValue(hex[i]) >= 0

UuidFromHex(s) == UuidObj(HexToInt(UuidCleanHex(s)))

\* hashlib.md5(s).hexdigest(), scaled to UuidHexLen digits: a fixed function of
\* the characters of s.
SymbolCode(c) ==
    CASE c = "0" -> 48
      [] c = "a" -> 97
      [] c = "A" -> 65
      [] c = "-" -> 45
      [] c = "{" -> 123
      [] c = "}" -> 125
      [] c = "g" -> 103
      [] OTHER -> 58

RECURSIVE Md5Int(_)
Md5Int(s) ==
    IF s = <<>> THEN 13
    ELSE (Md5Int(SubSeq(s, 1, Len(s) - 1)) * 31 + SymbolCode(s[Len(s)])) % Pow16(UuidHexLen)

\* uuid.UUID(hex=hexdigest): the digest always parses.
UuidFromMd5(s) == UuidObj(Md5Int(s))

\* A variant of create_valid_uuid: the isinstance shortcut is gone and a UUID is
\* hashed like any other value.
create_valid_uuid_no_shortcut(input_uuid) ==
    IF input_uuid.kind = "str" /\ ParsesAsUuid(input_uuid.str)
    THEN UuidFromHex(input_uuid.str)
    ELSE UuidObj((input_uuid.int * 31 + Md5Int(input_uuid.str)) % Pow16(UuidHexLen))

\* BaseProperty.create_valid_uuid
create_valid_uuid(input_uuid) ==
    IF input_uuid.kind = "UUID" THEN input_uuid
    ELSE IF ParsesAsUuid(input_uuid.str) THEN UuidFromHex(input_uuid.str)
    ELSE UuidFromMd5(input_uuid.str)

\* str(uuid): lower-case digits, zero padded, the first group set off by a
\* hyphen (8-4-4-4-12 in uuid.UUID, scaled to 1-rest).
RECURSIVE IntToHex(_, _)
IntToHex(n, len) ==
    IF len = 0 THEN <<>>
    ELSE IntToHex(n \div 16, len - 1) \o <<HexDigits[(n % 16) + 1]>>

UuidStr(u) ==
    LET hex == IntToHex(u.int, UuidHexLen)
    IN  <<hex[1], "-">> \o SubSeq(hex, 2, UuidHexLen)

AllUuids == {UuidObj(n) : n \in 0..(Pow16(UuidHexLen) - 1)}

UuidInputs == {StrObj(s) : s \in SeqUpTo(UuidAlphabet, MaxStrLen)} \cup AllUuids

NoUuid == UuidObj(-1)

\* The validator runs on a value.
Normalize ==
    /\ uOut = NoUuid
    /\ uOut' = create_valid_uuid(uIn)
    /\ uLog' = uLog \cup {<<uIn, create_valid_uuid(uIn)>>}
    /\ UNCHANGED <<uIn, uAgain>>
    /\ UNCHANGED <<compareVars, registryVars, codecVars, queryVars, metadataVars, scopeVars, decodeVars, schemaVars, refVars, introVars, dynamicVars, legacyVars, batchVars>>

\* The validator runs on its own result.
NormalizeAgain ==
    /\ uOut # NoUuid
    /\ uAgain = NoUuid
    /\ uAgain' = create_valid_uuid(uOut)
    /\ uLog' = uLog \cup {<<uOut, create_valid_uuid(uOut)>>}
    /\ UNCHANGED <<uIn, uOut>>
    /\ UNCHANGED <<compareVars, registryVars, codecVars, queryVars, metadataVars, scopeVars, decodeVars, schemaVars, refVars, introVars, dynamicVars, legacyVars, batchVars>>

\* The validator runs once more on the original value.
NormalizeSame ==
    /\ uAgain # NoUuid
    /\ uLog' = uLog \cup {<<uIn, create_valid_uuid(uIn)>>}
    /\ uAgain' = NoUuid
    /\ uOut' = NoUuid
    /\ UNCHANGED uIn
    /\ UNCHANGED <<compareVars, registryVars, codecVars, queryVars, metadataVars, scopeVars, decodeVars, schemaVars, refVars, introVars, dynamicVars, legacyVars, batchVars>>

(***************************************************************************)
(* Names, types and declared models                                        *)
(***************************************************************************)

LowerChars == <<"a", "b", "c", "d", "e", "f", "g", "h", "i", "j", "k", "l", "m",
                "n", "o", "p", "q", "r", "s", "t", "u", "v", "w", "x", "y", "z">>
UpperChars == <<"A", "B", "C", "D", "E", "F", "G", "H", "I", "J", "K", "L", "M",
                "N", "O", "P", "Q", "R", "S", "T", "U", "V", "W", "X", "Y", "Z">>

\* str.upper() and str.lower() of one character.
UpperChar(c) ==
    IF \E i \in DOMAIN LowerChars : LowerChars[i] = c
    THEN UpperChars[CHOOSE i \in DOMAIN LowerChars : LowerChars[i] = c]
    ELSE c

LowerChar(c) ==
    IF \E i \in DOMAIN UpperChars : UpperChars[i] = c
    THEN LowerChars[CHOOSE i \in DOMAIN UpperChars : UpperChars[i] = c]
    ELSE c

\* The characters of a name as one string.
RECURSIVE Join(_)
Join(s) == IF s = <<>> THEN "" ELSE Head(s) \o Join(Tail(s))

\* str.lower()
Lower(s) == [i \in DOMAIN s |-> LowerChar(s[i])]

\* str.capitalize(): the first character upper-cased, the rest lower-cased.
Capitalize(s) == [i \in DOMAIN s |-> IF i = 1 THEN UpperChar(s[i]) ELSE LowerChar(s[i])]

\* The names of the two built-in fields of BaseProperty.
F_uuid   == <<"u", "u", "i", "d">>
F_vector == <<"v", "e", "c", "t", "o", "r">>
BasePropertyFields == {F_uuid, F_vector}

\* Field names and class names used by the declared models.
F_x   == <<"x">>
F_y   == <<"y">>
F_a   == <<"a">>
F_b   == <<"b">>
F_grp == <<"g", "r", "p">>
N_Doc   == <<"D", "o", "c">>
N_Other == <<"O", "t", "h", "e", "r">>
N_Group == <<"G", "r", "o", "u", "p">>
N_M     == <<"M">>
F_l     == <<"l">>
N_Plain == <<"P", "l", "a", "i", "n">>

\* The ref_type of a ReferenceTo: a type, seen by its __name__, or a string.
TypeRef(n) == [is_type |-> TRUE, name |-> n]
StrRef(n)  == [is_type |-> FALSE, name |-> n]

\* Field annotations (FieldInfo.metadata[0]): none, a PropertyConfig with the
\* overrides it sets, a ReferenceTo with its target, or anything else.
NoMeta         == [kind |-> "none", target |-> StrRef(<<>>), cfg |-> {}]
ConfigMeta(c)  == [kind |-> "PropertyConfig", target |-> StrRef(<<>>), cfg |-> c]
RefMeta(t)     == [kind |-> "ReferenceTo", target |-> t, cfg |-> {}]
OtherMeta      == [kind |-> "other", target |-> StrRef(<<>>), cfg |-> {}]

FieldDecl(n, t, m, d, r) == [name |-> n, type |-> t, meta |-> m, default |-> d, required |-> r]

\* The annotations a generated model gives a field, by the name they go by.
Annotations ==
    [ str            |-> [type |-> "str", meta |-> NoMeta, required |-> TRUE],
      OptStr         |-> [type |-> "Optional[str]", meta |-> NoMeta, required |-> FALSE],
      int            |-> [type |-> "int", meta |-> NoMeta, required |-> TRUE],
      OptInt         |-> [type |-> "Optional[int]", meta |-> NoMeta, required |-> FALSE],
      ListStr        |-> [type |-> "List[str]", meta |-> NoMeta, required |-> TRUE],
      ListInt        |-> [type |-> "List[int]", meta |-> NoMeta, required |-> TRUE],
      OptListStr     |-> [type |-> "Optional[List[str]]", meta |-> NoMeta, required |-> FALSE],
      StrConfigured  |-> [type |-> "str", meta |-> ConfigMeta({"indexFilterable"}), required |-> TRUE],
      RefGroupType   |-> [type |-> "Optional[UUIDS]", meta |-> RefMeta(TypeRef(N_Group)), required |-> FALSE],
      RefGroupString |-> [type |-> "UUIDS", meta |-> RefMeta(StrRef(<<"g", "r", "o", "u", "p">>)), required |-> TRUE],
      NoneOrStr      |-> [type |-> "Union[None, str]", meta |-> NoMeta, required |-> FALSE],
      StrOther       |-> [type |-> "str", meta |-> OtherMeta, required |-> TRUE],
      Absent         |-> [type |-> "", meta |-> NoMeta, required |-> FALSE] ]

\* One generated model per pair of annotations: class Gen with field a of the
\* first and field b of the second, a field left out where Absent.
GeneratedId(ka, kb) == "Gen_" \o ka \o "_" \o kb
GeneratedFields(ka, kb) ==
    (IF ka = "Absent" THEN <<>>
     ELSE <<FieldDecl(F_a, Annotations[ka].type, Annotations[ka].meta, None, Annotations[ka].required)>>)
    \o
    (IF kb = "Absent" THEN <<>>
     ELSE <<FieldDecl(F_b, Annotations[kb].type, Annotations[kb].meta, None, Annotations[kb].required)>>)
GeneratedModels ==
    [id \in {GeneratedId(ka, kb) : ka, kb \in DOMAIN Annotations} |->
        LET k == CHOOSE pair \in (DOMAIN Annotations) \X (DOMAIN Annotations) :
                    GeneratedId(pair[1], pair[2]) = id
        IN  [name |-> <<"G", "e", "n">>, fields |-> GeneratedFields(k[1], k[2])]]

\* The classes the scenarios declare. Doc has two optional plain fields and one
\* optional reference; Plain has a scalar, an optional and an array field and no
\* reference; M1, M2, M3 and M4 all carry the class name M.
HandDeclaredModels ==
    [ Doc   |-> [name |-> N_Doc,
                 fields |-> << FieldDecl(F_x, "Optional[str]", NoMeta, None, FALSE),
                               FieldDecl(F_y, "Optional[int]", NoMeta, None, FALSE),
                               FieldDecl(F_grp, "Optional[UUIDS]", RefMeta(TypeRef(N_Group)), None, FALSE) >>],
      Other |-> [name |-> N_Other,
                 fields |-> << FieldDecl(F_x, "Optional[str]", NoMeta, None, FALSE) >>],
      M1    |-> [name |-> N_M,
                 fields |-> << FieldDecl(F_a, "int", NoMeta, None, TRUE) >>],
      M2    |-> [name |-> N_M,
                 fields |-> << FieldDecl(F_b, "str", NoMeta, None, TRUE) >>],
      M3    |-> [name |-> N_M,
                 fields |-> << FieldDecl(F_a, "int", NoMeta, None, TRUE),
                               FieldDecl(F_b, "Optional[str]", NoMeta, None, FALSE) >>],
      Plain |-> [name |-> N_Plain,
                 fields |-> << FieldDecl(F_a, "int", NoMeta, None, TRUE),
                               FieldDecl(F_b, "Optional[str]", NoMeta, None, FALSE),
                               FieldDecl(F_l, "List[str]", NoMeta, None, TRUE) >>],
      M4    |-> [name |-> N_M,
                 fields |-> << FieldDecl(F_a, "int", ConfigMeta({"indexFilterable"}), None, TRUE) >>] ]

DeclaredModels == HandDeclaredModels @@ GeneratedModels

ModelIds == DOMAIN DeclaredModels

\* model.model_fields of the declared (non built-in) fields, by name.
DeclaredFieldNames(model) == {DeclaredModels[model].fields[i].name : i \in DOMAIN DeclaredModels[model].fields}
FieldOf(model, name) ==
    LET fs == DeclaredModels[model].fields
    IN  fs[CHOOSE i \in DOMAIN fs : fs[i].name = name]

\* model.model_fields.keys(): the built-in fields and the declared ones.
ModelFieldNames(model) == BasePropertyFields \cup DeclaredFieldNames(model)

\* BaseProperty.get_ref_fields
get_ref_fields(model) ==
    {name \in ModelFieldNames(model) :
        /\ name \notin BasePropertyFields
        /\ FieldOf(model, name).meta.kind = "ReferenceTo"}

\* BaseProperty.get_non_ref_fields
get_non_ref_fields(model) ==
    {name \in ModelFieldNames(model) :
        /\ name \notin BasePropertyFields
        /\ FieldOf(model, name).meta.kind \in {"none", "PropertyConfig"}}

\* A variant of ReferenceTo.name that takes a target given as a string for the
\* collection name as it stands.
ReferenceToName_string_as_is(ref_type) ==
    IF ref_type.is_type THEN Capitalize(Lower(ref_type.name)) ELSE ref_type.name

\* ReferenceTo.name: the lower-cased, capitalized __name__ of a type, or the
\* lower-cased, capitalized string.
ReferenceToName(ref_type) ==
    IF ref_type.is_type
    THEN Capitalize(Lower(ref_type.name))
    ELSE Capitalize(Lower(ref_type.name))

\* typing.get_args of the annotations the models use.
TypingGetArgs(python_type) ==
    CASE python_type = "Optional[str]"   -> <<"str", "NoneType">>
      [] python_type = "Optional[int]"   -> <<"int", "NoneType">>
      [] python_type = "Optional[UUIDS]" -> <<"List[UUID]", "UUID", "NoneType">>
      [] python_type = "List[str]"       -> <<"str">>
      [] python_type = "List[int]"       -> <<"int">>
      [] python_type = "Optional[List[str]]" -> <<"List[str]", "NoneType">>
      [] python_type = "UUIDS"           -> <<"List[UUID]", "UUID">>
      [] python_type = "Union[None, str]" -> <<"NoneType", "str">>
      [] OTHER -> <<>>

\* BaseProperty._remove_optional_type: the first argument that "is not None";
\* every argument is a type object, NoneType included, and none of them is None.
remove_optional_type(python_type) ==
    LET args == TypingGetArgs(python_type)
    IN  IF Len(args) = 0 THEN python_type ELSE args[1]

\* weaviate_classes.PYTHON_TYPE_TO_DATATYPE, host type to remote data type.
PythonTypeToDatatype(t) ==
    CASE t = "str"       -> "text"
      [] t = "int"       -> "int"
      [] t = "float"     -> "number"
      [] t = "bool"      -> "boolean"
      [] t = "List[str]" -> "text[]"
      [] t = "List[int]" -> "int[]"
      [] OTHER -> "KeyError"

\* A schema property: a dict with name and dataType, and the keys a
\* PropertyConfig sets.
SchemaProp(n, dt, c) == [name |-> n, dataType |-> <<dt>>, config |-> c]

\* The fields of a set in the order of their declaration.
RECURSIVE InDeclaredOrder(_, _)
InDeclaredOrder(fields, names) ==
    IF fields = <<>> THEN <<>>
    ELSE (IF Head(fields).name \in names THEN <<Head(fields).name>> ELSE <<>>)
         \o InDeclaredOrder(Tail(fields), names)

\* BaseProperty.type_to_dict: the plain fields first, then the references.
type_to_dict(model) ==
    LET plain == InDeclaredOrder(DeclaredModels[model].fields, get_non_ref_fields(model))
        refs  == InDeclaredOrder(DeclaredModels[model].fields, get_ref_fields(model))
    IN  [i \in DOMAIN plain |->
            SchemaProp(Capitalize(plain[i]),
                       PythonTypeToDatatype(remove_optional_type(FieldOf(model, plain[i]).type)),
                       FieldOf(model, plain[i]).meta.cfg)]
        \o
        [i \in DOMAIN refs |->
            SchemaProp(Capitalize(refs[i]),
                       Join(ReferenceToName(FieldOf(model, refs[i]).meta.target)), {})]

(***************************************************************************)
(* Model instances and the object codec                                    *)
(***************************************************************************)

\* The most model instances alive at once, which is also the longest list
\* passed to insert_many.
MaxObjs == 2

\* The identifiers the scenarios pass explicitly, and the vectors.
U1 == UuidObj(1)
U2 == UuidObj(2)
TestUuids == {U1, U2}

\* Model(**data): a field given in data takes that value and enters
\* model_fields_set; any other field takes its declared default. The uuid
\* validator runs on a given uuid only: pydantic does not validate defaults.
NewInstance(model, given, uuid_arg, vector_arg, values) ==
    [ cls        |-> model,
      uuid       |-> IF F_uuid \in given THEN create_valid_uuid(uuid_arg) ELSE defaultUuid,
      vector     |-> IF F_vector \in given THEN vector_arg ELSE None,
      vals       |-> [f \in DeclaredFieldNames(model) |->
                        IF f \in given THEN values[f] ELSE FieldOf(model, f).default],
      fields_set |-> given ]

\* A beacon URI as its pieces in writing order, every slash a piece of its own:
\* weaviate://<authority>/<class>/<identifier>, the class left out when empty.
BeaconUri(authority, class, identifier) ==
    <<"weaviate:", "/", "/", authority, "/">>
    \o (IF class = "" THEN <<>> ELSE <<class, "/">>)
    \o <<identifier>>

\* weaviate.util._to_beacons: one beacon per identifier.
to_beacons(uuids, to_class) ==
    [i \in DOMAIN uuids |-> [beacon |-> BeaconUri("localhost", Join(to_class), uuids[i])]]

\* BaseProperty.props_to_dict. With update set, the union that would add the
\* fields never set is computed and dropped: fields_to_exclude is unchanged.
props_to_dict(obj, update) ==
    LET reference_fields  == get_ref_fields(obj.cls)
        fields_to_exclude == reference_fields \cup BasePropertyFields
        dumped            == ModelFieldNames(obj.cls) \ fields_to_exclude
        linked            == {ref \in reference_fields : obj.vals[ref] # None}
    IN  [f \in dumped \cup linked |->
            IF f \in linked
            THEN Some(to_beacons(obj.vals[f][1], ReferenceToName(FieldOf(obj.cls, f).meta.target)))
            ELSE obj.vals[f]]

\* A facade: the collection name and the model it was bound with.
Facade(n, m) == [name |-> n, model |-> m]
DocFacade == Facade(Join(N_Doc), "Doc")

\* model.model_validate(obj): an instance of the model passes, anything else
\* raises ValidationError.
model_validate(model, obj) == obj.cls = model

\* The dict insert, replace and update send; an absent key is None.
WireObject(facade, obj, update, with_id, with_vector) ==
    [ class      |-> facade.name,
      properties |-> props_to_dict(obj, update),
      id         |-> IF with_id THEN Some(UuidStr(obj.uuid)) ELSE None,
      vector     |-> IF with_vector /\ obj.vector # None THEN obj.vector ELSE None ]

\* One call of the connection layer of CollectionObjectBase.
WireCall(c, payload, u) == [call |-> c, objs |-> payload, uuid |-> u]

OpResult(o, c) == [outcome |-> o, calls |-> c]

\* CollectionObjectModel.insert
insert(facade, obj) ==
    IF ~model_validate(facade.model, obj) THEN OpResult("ValidationError", <<>>)
    ELSE OpResult("ok", <<WireCall("_insert", <<WireObject(facade, obj, FALSE, TRUE, TRUE)>>, None)>>)

\* A variant of insert_many that sends every object in a batch call of its own.
insert_many_one_by_one(facade, objects) ==
    IF \E i \in DOMAIN objects : ~model_validate(facade.model, objects[i])
    THEN OpResult("ValidationError", <<>>)
    ELSE OpResult("ok",
            [i \in DOMAIN objects |->
                WireCall("_insert_many", <<WireObject(facade, objects[i], FALSE, TRUE, FALSE)>>, None)])

\* A variant of insert_many: each object is validated only as it is written, so
\* the objects before the first invalid one are sent.
RECURSIVE ValidPrefix(_, _)
ValidPrefix(model, objects) ==
    IF objects = <<>> \/ ~model_validate(model, Head(objects)) THEN <<>>
    ELSE <<Head(objects)>> \o ValidPrefix(model, Tail(objects))

insert_many_lazy(facade, objects) ==
    LET sent == ValidPrefix(facade.model, objects)
        wire == [i \in DOMAIN sent |-> WireObject(facade, sent[i], FALSE, TRUE, FALSE)]
    IN  IF Len(sent) = Len(objects) THEN OpResult("ok", <<WireCall("_insert_many", wire, None)>>)
        ELSE OpResult("ValidationError",
                      IF sent = <<>> THEN <<>> ELSE <<WireCall("_insert_many", wire, None)>>)

\* CollectionObjectModel.insert_many
insert_many(facade, objects) ==
    IF \E i \in DOMAIN objects : ~model_validate(facade.model, objects[i])
    THEN OpResult("ValidationError", <<>>)
    ELSE OpResult("ok",
            <<WireCall("_insert_many",
                       [i \in DOMAIN objects |-> WireObject(facade, objects[i], FALSE, TRUE, FALSE)],
                       None)>>)

\* CollectionObjectBase._insert_many seen from its caller: one entry per wire
\* object in the order sent, the object's UUID where the remote took it and an
\* Errors record where it did not.
base_insert_many(weaviate_objs, verdict) ==
    [i \in DOMAIN weaviate_objs |->
        IF verdict[i] = "ok"
        THEN [kind |-> "UUID", value |-> weaviate_objs[i].id[1]]
        ELSE [kind |-> "Errors", value |-> "error"]]

\* CollectionObject.insert_many (the untyped facade): no validation; an object
\* without uuid gets a fresh one, and a RefToObject value becomes its beacon.
CollectionObject_insert_many(name, objects, fresh) ==
    OpResult("ok",
        <<WireCall("_insert_many",
                   [i \in DOMAIN objects |->
                        [ class      |-> name,
                          properties |-> objects[i].data,
                          id         |-> IF objects[i].uuid # None
                                         THEN Some(UuidStr(objects[i].uuid[1]))
                                         ELSE Some(UuidStr(fresh)),
                          vector     |-> None ]],
                   None)>>)

\* CollectionObjectModel.replace
replace(facade, obj, uuid) ==
    IF ~model_validate(facade.model, obj) THEN OpResult("ValidationError", <<>>)
    ELSE OpResult("ok", <<WireCall("_replace", <<WireObject(facade, obj, FALSE, FALSE, TRUE)>>, Some(uuid))>>)

\* CollectionObjectModel.update
update(facade, obj, uuid) ==
    IF ~model_validate(facade.model, obj) THEN OpResult("ValidationError", <<>>)
    ELSE OpResult("ok", <<WireCall("_update", <<WireObject(facade, obj, TRUE, FALSE, TRUE)>>, Some(uuid))>>)

\* The identifiers uuid4() may have drawn when the class body of BaseProperty ran.
DefaultUuids == {U1, UuidObj(7)}

\* What the scenarios pass to the constructor of Doc: any of uuid, x and y, or
\* a vector, alone or with a uuid and x.
DocGiven == SUBSET {F_uuid, F_x, F_y} \cup {{F_vector}, {F_uuid, F_vector, F_x}}
DocVector == Some(<<"0.5">>)
DocValues == {(F_x :> vx) @@ (F_y :> Some("1")) @@ (F_grp :> None) : vx \in {None, Some("'s'")}}

NoOp == [op |-> "none", args |-> <<>>, uuid |-> None, outcome |-> "none", calls |-> <<>>, returned |-> None]
Op(o, a, u, r) == [op |-> o, args |-> a, uuid |-> u, outcome |-> r.outcome, calls |-> r.calls, returned |-> None]

\* What a batch call hands back: the remote's verdict on every item, by
\* position. The remote takes every item, or every item but the last.
BatchVerdicts(n) == {[i \in 1..n |-> "ok"], [i \in 1..n |-> IF i = n THEN "error" ELSE "ok"]}
BatchReturn(r, verdict) ==
    IF r.outcome = "ok" THEN Some(base_insert_many(r.calls[1].objs, verdict)) ELSE None

\* The DataObject an untyped caller would build from an instance: its values as
\* a dict, and its uuid only when one was given.
DataObjectOf(obj) ==
    [data |-> obj.vals, uuid |-> IF F_uuid \in obj.fields_set THEN Some(obj.uuid) ELSE None]

\* Doc(**data)
ConstructDoc ==
    /\ Len(objs) < MaxObjs
    /\ \E given \in DocGiven, values \in DocValues :
          /\ (F_x \notin given => values[F_x] = None)
          /\ objs' = Append(objs, NewInstance("Doc", given, U1, DocVector, values))
    /\ lastOp' = NoOp
    /\ UNCHANGED defaultUuid
    /\ UNCHANGED <<uuidVars, compareVars, registryVars, queryVars, metadataVars, scopeVars, decodeVars, schemaVars, refVars, introVars, dynamicVars, legacyVars, batchVars>>

\* Other(): an instance of a class the facade is not bound to.
ConstructOther ==
    /\ Len(objs) < MaxObjs
    /\ objs' = Append(objs, NewInstance("Other", {}, U1, None, (F_x :> None)))
    /\ lastOp' = NoOp
    /\ UNCHANGED defaultUuid
    /\ UNCHANGED <<uuidVars, compareVars, registryVars, queryVars, metadataVars, scopeVars, decodeVars, schemaVars, refVars, introVars, dynamicVars, legacyVars, batchVars>>

\* The instances go out of scope.
Discard ==
    /\ objs # <<>>
    /\ objs' = <<>>
    /\ lastOp' = NoOp
    /\ UNCHANGED defaultUuid
    /\ UNCHANGED <<uuidVars, compareVars, registryVars, queryVars, metadataVars, scopeVars, decodeVars, schemaVars, refVars, introVars, dynamicVars, legacyVars, batchVars>>

Insert ==
    /\ \E i \in DOMAIN objs :
          lastOp' = Op("insert", <<objs[i]>>, None, insert(DocFacade, objs[i]))
    /\ UNCHANGED <<defaultUuid, objs>>
    /\ UNCHANGED <<uuidVars, compareVars, registryVars, queryVars, metadataVars, scopeVars, decodeVars, schemaVars, refVars, introVars, dynamicVars, legacyVars, batchVars>>

InsertMany ==
    /\ objs # <<>>
    /\ \E verdict \in BatchVerdicts(Len(objs)) :
          LET r == insert_many(DocFacade, objs)
          IN  lastOp' = [Op("insert_many", objs, None, r) EXCEPT !.returned = BatchReturn(r, verdict)]
    /\ UNCHANGED <<defaultUuid, objs>>
    /\ UNCHANGED <<uuidVars, compareVars, registryVars, queryVars, metadataVars, scopeVars, decodeVars, schemaVars, refVars, introVars, dynamicVars, legacyVars, batchVars>>

\* insert_many of the untyped facade, on the DataObjects of the live instances.
InsertManyUntyped ==
    /\ objs # <<>>
    /\ \E verdict \in BatchVerdicts(Len(objs)) :
          LET data == [i \in DOMAIN objs |-> DataObjectOf(objs[i])]
              r    == CollectionObject_insert_many(DocFacade.name, data, U2)
          IN  lastOp' = [Op("insert_many_untyped", data, None, r) EXCEPT !.returned = BatchReturn(r, verdict)]
    /\ UNCHANGED <<defaultUuid, objs>>
    /\ UNCHANGED <<uuidVars, compareVars, registryVars, queryVars, metadataVars, scopeVars, decodeVars, schemaVars, refVars, introVars, dynamicVars, legacyVars, batchVars>>

Replace ==
    /\ \E i \in DOMAIN objs, u \in TestUuids :
          lastOp' = Op("replace", <<objs[i]>>, Some(u), replace(DocFacade, objs[i], u))
    /\ UNCHANGED <<defaultUuid, objs>>
    /\ UNCHANGED <<uuidVars, compareVars, registryVars, queryVars, metadataVars, scopeVars, decodeVars, schemaVars, refVars, introVars, dynamicVars, legacyVars, batchVars>>

Update ==
    /\ \E i \in DOMAIN objs, u \in TestUuids :
          lastOp' = Op("update", <<objs[i]>>, Some(u), update(DocFacade, objs[i], u))
    /\ UNCHANGED <<defaultUuid, objs>>
    /\ UNCHANGED <<uuidVars, compareVars, registryVars, queryVars, metadataVars, scopeVars, decodeVars, schemaVars, refVars, introVars, dynamicVars, legacyVars, batchVars>>

(***************************************************************************)
(* The collection registry                                                 *)
(***************************************************************************)

\* The longest lists handed to compare, and the longest property list the
\* remote schema holds.
MaxCompareLen == 3
MaxRemoteProps == 2

\* list.remove(elem): the first occurrence removed.
RECURSIVE RemoveFirst(_, _)
RemoveFirst(t, elem) ==
    IF t = <<>> THEN <<>>
    ELSE IF Head(t) = elem THEN Tail(t)
    ELSE <<Head(t)>> \o RemoveFirst(Tail(t), elem)

\* A variant of compare: the final "not t" is forgotten, so a list whose
\* elements all occur in t is accepted.
RECURSIVE compare_no_rest(_, _)
compare_no_rest(s, t) ==
    IF s = <<>> THEN TRUE
    ELSE IF Head(s) \notin Range(t) THEN FALSE
    ELSE compare_no_rest(Tail(s), RemoveFirst(t, Head(s)))

\* The loop of compare over the elements of s left, t being the mutable copy:
\* remove raises ValueError, and compare returns False, when elem is not in t.
RECURSIVE CompareLoop(_, _)
CompareLoop(s, t) ==
    IF s = <<>> THEN t = <<>>
    ELSE IF Head(s) \notin Range(t) THEN FALSE
    ELSE CompareLoop(Tail(s), RemoveFirst(t, Head(s)))

\* CollectionModel.get.compare
compare(s, t) == CompareLoop(s, t)

\* The response of GET /schema/<name>: the connection fails, or the remote
\* answers with a status and, on 200, the class with its properties.
ConnectionFailed  == [kind |-> "ConnectionError", status |-> 0, properties |-> <<>>]
Response(st, ps)  == [kind |-> "response", status |-> st, properties |-> ps]

\* The schema a class has at the remote: None while the class does not exist.
SchemaResponse(schema) ==
    IF schema = None THEN Response(404, <<>>) ELSE Response(200, schema[1])

\* schema_props of get: name and dataType of each remote property, nothing else.
SchemaProps(properties) ==
    [i \in DOMAIN properties |-> SchemaProp(properties[i].name, properties[i].dataType[1], {})]

GetResult(o, f) == [outcome |-> o, facade |-> f]

\* CollectionModel.get
registry_get(model, response) ==
    LET collection_name == Join(Capitalize(DeclaredModels[model].name))
    IN  IF response.kind = "ConnectionError" THEN GetResult("ConnectionError", None)
        ELSE IF response.status # 200 THEN GetResult("UnexpectedStatusCodeException", None)
        ELSE IF compare(type_to_dict(model), SchemaProps(response.properties))
             THEN GetResult("TypeError", None)
             ELSE GetResult("facade", Some(Facade(collection_name, model)))

\* CollectionBase._create: the class is stored under the model's name with the
\* derived properties, and that name is returned.
registry_create(model) == [name |-> Join(DeclaredModels[model].name), schema |-> Some(type_to_dict(model))]

\* The classes the scenarios create or bind, and what other clients may have
\* stored as properties of class M.
RegistryModels == {"M1", "M2", "M3", "M4", "Doc"}
RemoteClasses == {Join(DeclaredModels[m].name) : m \in RegistryModels}
ForeignProps == {SchemaProp(<<"A">>, "int", {}), SchemaProp(<<"B">>, "text", {}), SchemaProp(<<"A">>, "text", {})}

NoGet == [call |-> "none", model |-> "none", response |-> Response(0, <<>>), outcome |-> "none", facade |-> None]

\* CollectionModel(connection, model).create(config)
Create ==
    /\ \E model \in RegistryModels :
          LET made == registry_create(model)
          IN  /\ remote[made.name] = None
              /\ remote' = [remote EXCEPT ![made.name] = made.schema]
    /\ lastGet' = NoGet
    /\ UNCHANGED <<uuidVars, compareVars, codecVars, queryVars, metadataVars, scopeVars, decodeVars, schemaVars, refVars, introVars, dynamicVars, legacyVars, batchVars>>

\* Another client stores class M with properties of its own, or deletes a class.
RemoteChange ==
    /\ \/ \E ps \in SeqUpTo(ForeignProps, MaxRemoteProps) :
             remote' = [remote EXCEPT ![Join(N_M)] = Some(ps)]
       \/ \E c \in RemoteClasses : remote[c] # None /\ remote' = [remote EXCEPT ![c] = None]
    /\ lastGet' = NoGet
    /\ UNCHANGED <<uuidVars, compareVars, codecVars, queryVars, metadataVars, scopeVars, decodeVars, schemaVars, refVars, introVars, dynamicVars, legacyVars, batchVars>>

\* CollectionModel(connection, model).get()
Get ==
    /\ \E model \in RegistryModels :
          \E response \in {ConnectionFailed,
                           SchemaResponse(remote[Join(Capitalize(DeclaredModels[model].name))])} :
             LET r == registry_get(model, response)
             IN  lastGet' = [call |-> "get", model |-> model, response |-> response,
                             outcome |-> r.outcome, facade |-> r.facade]
    /\ UNCHANGED remote
    /\ UNCHANGED <<uuidVars, compareVars, codecVars, queryVars, metadataVars, scopeVars, decodeVars, schemaVars, refVars, introVars, dynamicVars, legacyVars, batchVars>>

\* compare on two arbitrary property lists.
ComparePairs == {SchemaProp(<<"A">>, "int", {}), SchemaProp(<<"B">>, "text", {}), SchemaProp(<<"A">>, "text", {})}

ApplyCompare ==
    /\ cmpRes = None
    /\ cmpRes' = <<compare(cmpS, cmpT), compare(cmpT, cmpS)>>
    /\ UNCHANGED <<cmpS, cmpT>>
    /\ UNCHANGED <<uuidVars, registryVars, codecVars, queryVars, metadataVars, scopeVars, decodeVars, schemaVars, refVars, introVars, dynamicVars, legacyVars, batchVars>>

(***************************************************************************)
(* The gRPC query builder                                                  *)
(***************************************************************************)

\* The most terminal verbs called on one builder.
MaxCalls == 2

\* The fields of MetadataQuery; a MetadataQuery is the set of those it sets.
MetadataFields == {"uuid", "vector", "creation_time_unix", "last_update_time_unix",
                   "distance", "certainty", "score", "explain_score"}

\* A requested property: a plain name, or a LinkTo with its own properties and
\* metadata request.
PlainProp(n)        == [link |-> FALSE, name |-> n, properties |-> {}, metadata |-> None]
LinkTo(n, ps, meta) == [link |-> TRUE, name |-> n, properties |-> ps, metadata |-> Some(meta)]

\* _GRPC.__init__
NewGrpc(name, tenant, default_properties) ==
    [ name |-> name, tenant |-> tenant,
      default_props |-> IF default_properties # None THEN default_properties[1] ELSE {},
      metadata |-> None,
      limit |-> None, offset |-> None, autocut |-> None, after |-> None,
      hybrid_query |-> None, hybrid_alpha |-> None, hybrid_vector |-> None,
      hybrid_properties |-> None, hybrid_fusion_type |-> None,
      bm25_query |-> None, bm25_properties |-> None,
      near_vector_vec |-> None, near_object_obj |-> None,
      near_certainty |-> None, near_distance |-> None ]

\* self._default_props.union(return_properties) when properties are given.
WithReturnProps(b, return_properties) ==
    IF return_properties # None
    THEN [b EXCEPT !.default_props = b.default_props \cup return_properties[1]]
    ELSE b

\* _GRPC.get, up to its call of __call
grpc_get(b, limit, offset, after, return_metadata, return_properties) ==
    WithReturnProps([b EXCEPT !.limit = limit, !.offset = offset, !.after = after,
                              !.metadata = return_metadata],
                    return_properties)

\* _GRPC.hybrid, up to its call of __call
grpc_hybrid(b, query, alpha, vector, properties, fusion_type, limit, autocut, return_metadata, return_properties) ==
    WithReturnProps([b EXCEPT !.hybrid_query = Some(query), !.hybrid_alpha = alpha,
                              !.hybrid_vector = vector, !.hybrid_properties = properties,
                              !.hybrid_fusion_type = fusion_type,
                              !.limit = limit, !.autocut = autocut,
                              !.metadata = return_metadata],
                    return_properties)

\* A variant of bm25 that first puts the pagination of an earlier get back to
\* what __init__ set.
grpc_bm25_reset_pagination(b, query, properties, limit, autocut, return_metadata, return_properties) ==
    WithReturnProps([b EXCEPT !.bm25_query = Some(query), !.bm25_properties = properties,
                              !.limit = limit, !.autocut = autocut,
                              !.metadata = return_metadata,
                              !.offset = None, !.after = None],
                    return_properties)

\* _GRPC.bm25, up to its call of __call
grpc_bm25(b, query, properties, limit, autocut, return_metadata, return_properties) ==
    WithReturnProps([b EXCEPT !.bm25_query = Some(query), !.bm25_properties = properties,
                              !.limit = limit, !.autocut = autocut,
                              !.metadata = return_metadata],
                    return_properties)

\* _GRPC.near_vector, up to its call of __call
grpc_near_vector(b, vector, certainty, distance, autocut, return_metadata, return_properties) ==
    WithReturnProps([b EXCEPT !.near_vector_vec = Some(vector), !.near_certainty = certainty,
                              !.near_distance = distance, !.autocut = autocut,
                              !.metadata = return_metadata],
                    return_properties)

\* _GRPC.near_object, up to its call of __call
grpc_near_object(b, near_object, certainty, distance, autocut, return_metadata, return_properties) ==
    WithReturnProps([b EXCEPT !.near_object_obj = Some(near_object), !.near_certainty = certainty,
                              !.near_distance = distance, !.autocut = autocut,
                              !.metadata = return_metadata],
                    return_properties)

\* _GRPC._metadata_to_grpc
metadata_to_grpc(metadata) ==
    [ uuid               |-> "uuid" \in metadata,
      vector             |-> "vector" \in metadata,
      creationTimeUnix   |-> "creation_time_unix" \in metadata,
      lastUpdateTimeUnix |-> "last_update_time_unix" \in metadata,
      distance           |-> "distance" \in metadata,
      certainty          |-> "certainty" \in metadata,
      explainScore       |-> "explain_score" \in metadata,
      score              |-> "score" \in metadata ]

\* _GRPC._convert_references_to_grpc
RECURSIVE convert_references_to_grpc(_)
convert_references_to_grpc(properties) ==
    [ non_ref_properties |-> {p.name : p \in {q \in properties : ~q.link}},
      ref_properties |->
          {[reference_property |-> p.name,
            linked_properties  |-> convert_references_to_grpc(p.properties),
            metadata           |-> metadata_to_grpc(p.metadata[1])] : p \in {q \in properties : q.link}} ]

\* The near_vector, near_object, bm25_search and hybrid_search arguments of the
\* SearchRequest built by __call: each is set when the field it hangs on is.
NearVectorParams(b) ==
    IF b.near_vector_vec # None
    THEN Some([vector |-> b.near_vector_vec[1], certainty |-> b.near_certainty, distance |-> b.near_distance])
    ELSE None

NearObjectParams(b) ==
    IF b.near_object_obj # None
    THEN Some([id |-> b.near_object_obj[1], certainty |-> b.near_certainty, distance |-> b.near_distance])
    ELSE None

\* A variant of the bm25_search argument that hangs on the properties given to
\* bm25, not on its query.
BM25SearchParams_on_properties(b) ==
    IF b.bm25_properties # None
    THEN Some([properties |-> b.bm25_properties, query |-> b.bm25_query[1]])
    ELSE None

BM25SearchParams(b) ==
    IF b.bm25_query # None
    THEN Some([properties |-> b.bm25_properties, query |-> b.bm25_query[1]])
    ELSE None

HybridSearchParams(b) ==
    IF b.hybrid_query # None
    THEN Some([properties |-> b.hybrid_properties, query |-> b.hybrid_query[1],
               alpha |-> b.hybrid_alpha, vector |-> b.hybrid_vector,
               fusion_type |-> b.hybrid_fusion_type])
    ELSE None

\* A variant of the SearchRequest of __call that leaves the tenant out.
SearchRequest_no_tenant(b) ==
    [ class_name  |-> b.name,
      limit       |-> b.limit,
      offset      |-> b.offset,
      after       |-> IF b.after # None THEN b.after[1] ELSE "",
      autocut     |-> b.autocut,
      near_vector |-> NearVectorParams(b),
      near_object |-> NearObjectParams(b),
      properties  |-> convert_references_to_grpc(b.default_props),
      additional_properties |-> IF b.metadata # None THEN Some(metadata_to_grpc(b.metadata[1])) ELSE None,
      bm25_search   |-> BM25SearchParams(b),
      hybrid_search |-> HybridSearchParams(b),
      tenant        |-> None ]

\* The SearchRequest of __call.
SearchRequest(b) ==
    [ class_name  |-> b.name,
      limit       |-> b.limit,
      offset      |-> b.offset,
      after       |-> IF b.after # None THEN b.after[1] ELSE "",
      autocut     |-> b.autocut,
      near_vector |-> NearVectorParams(b),
      near_object |-> NearObjectParams(b),
      properties  |-> convert_references_to_grpc(b.default_props),
      additional_properties |-> IF b.metadata # None THEN Some(metadata_to_grpc(b.metadata[1])) ELSE None,
      bm25_search   |-> BM25SearchParams(b),
      hybrid_search |-> HybridSearchParams(b),
      tenant        |-> b.tenant ]

\* _GRPC._ref_props_return_meta: the RefProps of every LinkTo, by link_on;
\* plain names leave no entry.
RECURSIVE ref_props_return_meta(_)
ref_props_return_meta(props) ==
    [n \in {p.name : p \in {q \in props : q.link}} |->
        LET prop == CHOOSE q \in props : q.link /\ q.name = n
        IN  [meta |-> prop.metadata, refs |-> ref_props_return_meta(prop.properties)]]

\* MetadataReturn: every field None unless given.
MetadataReturn(id, vector, distance, certainty, creationTimeUnix, lastUpdateTimeUnix, score, explainScore) ==
    [ id |-> id, vector |-> vector, distance |-> distance, certainty |-> certainty,
      creationTimeUnix |-> creationTimeUnix, lastUpdateTimeUnix |-> lastUpdateTimeUnix,
      score |-> score, explainScore |-> explainScore ]

\* str(n) of a number, written as the Python literal of the string.
PyStr(n) == "'" \o n \o "'"

\* A variant of _extract_metadata that copies the distance of every row that
\* carries one, requested or not.
extract_metadata_unasked_distance(props, meta) ==
    IF meta = None THEN MetadataReturn(None, None, None, None, None, None, None, None)
    ELSE MetadataReturn(
            IF "uuid" \in meta[1] THEN Some(props.id) ELSE None,
            IF "vector" \in meta[1] /\ Len(props.vector) > 0 THEN Some(props.vector) ELSE None,
            IF props.distance_present THEN Some(props.distance) ELSE None,
            IF "certainty" \in meta[1] /\ props.certainty_present THEN Some(props.certainty) ELSE None,
            IF "creation_time_unix" \in meta[1] /\ props.creation_time_unix_present
                THEN Some(PyStr(props.creation_time_unix)) ELSE None,
            IF "last_update_time_unix" \in meta[1] /\ props.last_update_time_unix_present
                THEN Some(PyStr(props.last_update_time_unix)) ELSE None,
            IF "score" \in meta[1] /\ props.score_present THEN Some(props.score) ELSE None,
            IF "explain_score" \in meta[1] /\ props.explain_score_present
                THEN Some(props.explain_score) ELSE None)

\* A variant of _extract_metadata that reads the score without looking at
\* score_present.
extract_metadata_unflagged_score(props, meta) ==
    IF meta = None THEN MetadataReturn(None, None, None, None, None, None, None, None)
    ELSE MetadataReturn(
            IF "uuid" \in meta[1] THEN Some(props.id) ELSE None,
            IF "vector" \in meta[1] /\ Len(props.vector) > 0 THEN Some(props.vector) ELSE None,
            IF "distance" \in meta[1] /\ props.distance_present THEN Some(props.distance) ELSE None,
            IF "certainty" \in meta[1] /\ props.certainty_present THEN Some(props.certainty) ELSE None,
            IF "creation_time_unix" \in meta[1] /\ props.creation_time_unix_present
                THEN Some(PyStr(props.creation_time_unix)) ELSE None,
            IF "last_update_time_unix" \in meta[1] /\ props.last_update_time_unix_present
                THEN Some(PyStr(props.last_update_time_unix)) ELSE None,
            IF "score" \in meta[1] THEN Some(props.score) ELSE None,
            IF "explain_score" \in meta[1] /\ props.explain_score_present
                THEN Some(props.explain_score) ELSE None)

\* _GRPC._extract_metadata
extract_metadata(props, meta) ==
    IF meta = None THEN MetadataReturn(None, None, None, None, None, None, None, None)
    ELSE MetadataReturn(
            IF "uuid" \in meta[1] THEN Some(props.id) ELSE None,
            IF "vector" \in meta[1] /\ Len(props.vector) > 0 THEN Some(props.vector) ELSE None,
            IF "distance" \in meta[1] /\ props.distance_present THEN Some(props.distance) ELSE None,
            IF "certainty" \in meta[1] /\ props.certainty_present THEN Some(props.certainty) ELSE None,
            IF "creation_time_unix" \in meta[1] /\ props.creation_time_unix_present
                THEN Some(PyStr(props.creation_time_unix)) ELSE None,
            IF "last_update_time_unix" \in meta[1] /\ props.last_update_time_unix_present
                THEN Some(PyStr(props.last_update_time_unix)) ELSE None,
            IF "score" \in meta[1] /\ props.score_present THEN Some(props.score) ELSE None,
            IF "explain_score" \in meta[1] /\ props.explain_score_present
                THEN Some(props.explain_score) ELSE None)

GrpcResult(result, metadata) == [result |-> result, metadata |-> metadata]

\* A conversion that returned, and one that a dict lookup ended with KeyError.
Converted(v) == [raised |-> FALSE, value |-> v]
KeyErrorRaised == [raised |-> TRUE, value |-> <<>>]

\* A variant of _convert_references_to_grpc_result that extracts the metadata
\* of a linked object from the row that links it, not from the linked object.
RECURSIVE convert_with_parent_metadata(_, _)
convert_with_parent_metadata(properties, props) ==
    LET refs     == properties.ref_props
        refNames == {refs[i].prop_name : i \in DOMAIN refs}
        lastOf(n) == refs[CHOOSE i \in DOMAIN refs :
                            /\ refs[i].prop_name = n
                            /\ \A j \in DOMAIN refs : refs[j].prop_name = n => j <= i]
        nested(i) == [j \in DOMAIN refs[i].properties |->
                        convert_with_parent_metadata(refs[i].properties[j],
                                                     props[refs[i].prop_name].refs)]
    IN  IF \E n \in refNames : n \notin DOMAIN props THEN KeyErrorRaised
        ELSE IF \E i \in DOMAIN refs : \E j \in DOMAIN nested(i) : nested(i)[j].raised
        THEN KeyErrorRaised
        ELSE Converted(
                [n \in DOMAIN properties.non_ref_properties \cup refNames |->
                    IF n \in refNames
                    THEN LET rp == lastOf(n)
                         IN  [j \in DOMAIN rp.properties |->
                                GrpcResult(
                                    convert_with_parent_metadata(rp.properties[j], props[n].refs).value,
                                    extract_metadata(properties.metadata, props[n].meta))]
                    ELSE properties.non_ref_properties[n]])

\* _GRPC._convert_references_to_grpc_result: the plain properties copied, then
\* every reference property replaced by the list of its converted objects;
\* props[prop_name] raises KeyError for a reference with no RefProps.
RECURSIVE convert_references_to_grpc_result(_, _)
convert_references_to_grpc_result(properties, props) ==
    LET refs     == properties.ref_props
        refNames == {refs[i].prop_name : i \in DOMAIN refs}
        lastOf(n) == refs[CHOOSE i \in DOMAIN refs :
                            /\ refs[i].prop_name = n
                            /\ \A j \in DOMAIN refs : refs[j].prop_name = n => j <= i]
        nested(i) == [j \in DOMAIN refs[i].properties |->
                        convert_references_to_grpc_result(refs[i].properties[j],
                                                          props[refs[i].prop_name].refs)]
    IN  IF \E n \in refNames : n \notin DOMAIN props THEN KeyErrorRaised
        ELSE IF \E i \in DOMAIN refs : \E j \in DOMAIN nested(i) : nested(i)[j].raised
        THEN KeyErrorRaised
        ELSE Converted(
                [n \in DOMAIN properties.non_ref_properties \cup refNames |->
                    IF n \in refNames
                    THEN LET rp == lastOf(n)
                         IN  [j \in DOMAIN rp.properties |->
                                GrpcResult(
                                    convert_references_to_grpc_result(rp.properties[j], props[n].refs).value,
                                    extract_metadata(rp.properties[j].metadata, props[n].meta))]
                    ELSE properties.non_ref_properties[n]])

\* The reply of Search.with_call: grpc.RpcError with its details, or a
\* SearchResponse with its results.
RpcError(details)      == [kind |-> "RpcError", details |-> details, results |-> <<>>]
SearchResponse(results) == [kind |-> "SearchResponse", details |-> "", results |-> results]

\* A variant of the Search call: a failed call is issued a second time.
SearchCallsRetried(b, reply) ==
    IF reply.kind = "RpcError" THEN <<SearchRequest(b), SearchRequest(b)>> ELSE <<SearchRequest(b)>>

\* The Search calls __call issues: one, with the request built from the fields.
SearchCalls(b, reply) == <<SearchRequest(b)>>

\* The rows of a reply taken last first.
RECURSIVE RowsOfReversed(_)
RowsOfReversed(reply) ==
    IF reply.results = <<>> THEN <<>>
    ELSE Append(RowsOfReversed([reply EXCEPT !.results = Tail(reply.results)]), Head(reply.results))

\* for result in res.results: the rows in the order of the reply.
RowsOf(reply) == reply.results

CallResult(reqs, o, d, r) == [requests |-> reqs, outcome |-> o, detail |-> d, result |-> r]

\* _GRPC.__call: the call, then the results converted one by one; only
\* grpc.RpcError is caught and raised again as WeaviateGRPCException.
grpc_call(b, reply) ==
    LET ref_props_meta == ref_props_return_meta(b.default_props)
        rows == RowsOf(reply)
        converted == [i \in DOMAIN rows |->
                        convert_references_to_grpc_result(rows[i].properties, ref_props_meta)]
    IN  IF reply.kind = "RpcError"
        THEN CallResult(SearchCalls(b, reply), "WeaviateGRPCException", Some(reply.details), None)
        ELSE IF \E i \in DOMAIN converted : converted[i].raised
        THEN CallResult(SearchCalls(b, reply), "KeyError", None, None)
        ELSE CallResult(SearchCalls(b, reply), "ok", None,
                Some([i \in DOMAIN converted |->
                        GrpcResult(converted[i].value,
                                   extract_metadata(rows[i].additional_properties, b.metadata))]))

\* ResultAdditionalProps as the remote fills them: every optional value
\* present, or none (the fields then hold the protobuf defaults).
PropsAllPresent ==
    [ id |-> "u1", vector |-> <<"0.5">>,
      distance |-> "0.1", distance_present |-> TRUE,
      certainty |-> "0.9", certainty_present |-> TRUE,
      creation_time_unix |-> "1700", creation_time_unix_present |-> TRUE,
      last_update_time_unix |-> "1701", last_update_time_unix_present |-> TRUE,
      score |-> "0.3", score_present |-> TRUE,
      explain_score |-> "'bm25'", explain_score_present |-> TRUE ]

PropsNonePresent ==
    [ id |-> "", vector |-> <<>>,
      distance |-> "0.0", distance_present |-> FALSE,
      certainty |-> "0.0", certainty_present |-> FALSE,
      creation_time_unix |-> "0", creation_time_unix_present |-> FALSE,
      last_update_time_unix |-> "0", last_update_time_unix_present |-> FALSE,
      score |-> "0.0", score_present |-> FALSE,
      explain_score |-> "''", explain_score_present |-> FALSE ]

\* ResultProperties and SearchResult.
ResultProperties(non_ref, refs, metadata) ==
    [non_ref_properties |-> non_ref, ref_props |-> refs, metadata |-> metadata]
SearchResult(properties, additional) ==
    [properties |-> properties, additional_properties |-> additional]

\* The rows the remote answers with: one with plain properties only, one that
\* also carries a linked object of the reference grp, and one whose reference
\* grp links two objects, the first of them with a reference owner of its own.
GroupRow == ResultProperties(("name" :> "'G'"), <<>>, PropsAllPresent)
OwnerRow == ResultProperties(("name" :> "'O'"), <<>>, PropsAllPresent)
OwnedGroupRow == ResultProperties(("name" :> "'H'"),
                                  <<[prop_name |-> "owner", properties |-> <<OwnerRow>>]>>,
                                  PropsAllPresent)
PlainRow == SearchResult(ResultProperties(("name" :> "'some'"), <<>>, PropsNonePresent), PropsAllPresent)
RefRow   == SearchResult(ResultProperties(("name" :> "'other'"),
                                          <<[prop_name |-> "grp", properties |-> <<GroupRow>>]>>,
                                          PropsNonePresent),
                         PropsNonePresent)

DeepRow  == SearchResult(ResultProperties(("name" :> "'deep'"),
                                          <<[prop_name |-> "grp", properties |-> <<OwnedGroupRow, GroupRow>>]>>,
                                          PropsNonePresent),
                         PropsAllPresent)

Replies == {RpcError("unavailable"), SearchResponse(<<PlainRow, RefRow>>), SearchResponse(<<DeepRow, PlainRow>>)}

\* What the scenarios pass as return_properties: nothing, plain names only (the
\* reference among them), a plain name and a LinkTo projection, or a LinkTo
\* projection with a LinkTo of its own.
ReturnProps == {None,
                Some({PlainProp("name"), PlainProp("grp")}),
                Some({PlainProp("name"), LinkTo("grp", {PlainProp("name")}, {"uuid"})}),
                Some({PlainProp("name"),
                      LinkTo("grp", {PlainProp("name"), LinkTo("owner", {PlainProp("name")}, {"score"})},
                             {"uuid", "distance"})})}

Tenants == {None, Some("T1")}

NoCall == [verb |-> "none", requests |-> <<>>, reply |-> None, outcome |-> "none", detail |-> None, result |-> None]

\* A terminal verb has set its fields (b is the builder after that) and runs __call.
Terminal(verb, b, reply) ==
    LET r == grpc_call(b, reply)
    IN  /\ Len(verbsCalled) < MaxCalls
        /\ grpc' = b
        /\ verbsCalled' = Append(verbsCalled, verb)
        /\ nSearch' = nSearch + Len(r.requests)
        /\ lastCall' = [verb |-> verb, requests |-> r.requests, reply |-> Some(reply),
                        outcome |-> r.outcome, detail |-> r.detail, result |-> r.result]
        /\ UNCHANGED <<uuidVars, compareVars, registryVars, codecVars, metadataVars, scopeVars, decodeVars, schemaVars, refVars, introVars, dynamicVars, legacyVars, batchVars>>

\* The optional arguments of a verb: all left out, or all given.
Opt(full, v) == IF full THEN Some(v) ELSE None

VerbGet ==
    \E full \in BOOLEAN, rp \in ReturnProps, reply \in Replies :
        Terminal("get",
                 grpc_get(grpc, Opt(full, "1"), Opt(full, "2"), Opt(full, "u1"),
                          Opt(full, {"uuid", "distance"}), rp),
                 reply)

VerbHybrid ==
    \E full \in BOOLEAN, rp \in ReturnProps, reply \in Replies :
        Terminal("hybrid",
                 grpc_hybrid(grpc, "'q1'", Opt(full, "0.5"), Opt(full, <<"0.1">>), Opt(full, <<"name">>),
                             Opt(full, "RANKED"), Opt(full, "1"), Opt(full, "1"),
                             Opt(full, {"uuid", "score"}), rp),
                 reply)

VerbBm25 ==
    \E full \in BOOLEAN, rp \in ReturnProps, reply \in Replies :
        Terminal("bm25",
                 grpc_bm25(grpc, "'q2'", Opt(full, <<"name">>), Opt(full, "1"), Opt(full, "1"),
                           Opt(full, {"uuid", "last_update_time_unix"}), rp),
                 reply)

VerbNearVector ==
    \E full \in BOOLEAN, rp \in ReturnProps, reply \in Replies :
        Terminal("near_vector",
                 grpc_near_vector(grpc, <<"0.1">>, Opt(full, "0.8"), Opt(full, "0.2"), Opt(full, "1"),
                                  Opt(full, {"uuid", "distance"}), rp),
                 reply)

VerbNearObject ==
    \E full \in BOOLEAN, rp \in ReturnProps, reply \in Replies :
        Terminal("near_object",
                 grpc_near_object(grpc, "u1", Opt(full, "0.8"), Opt(full, "0.2"), Opt(full, "1"),
                                  Opt(full, {"uuid", "certainty"}), rp),
                 reply)

\* A fresh builder takes the place of the used one.
NewBuilder ==
    /\ verbsCalled # <<>>
    /\ \E t \in Tenants : grpc' = NewGrpc(DocFacade.name, t, None)
    /\ verbsCalled' = <<>>
    /\ nSearch' = 0
    /\ lastCall' = NoCall
    /\ UNCHANGED <<uuidVars, compareVars, registryVars, codecVars, metadataVars, scopeVars, decodeVars, schemaVars, refVars, introVars, dynamicVars, legacyVars, batchVars>>

(***************************************************************************)
(* Metadata extraction on its own                                          *)
(***************************************************************************)

\* The ResultAdditionalProps a row can carry: an id or none, a vector or none,
\* and each optional scalar present with its value or absent with the protobuf
\* default; a distance that is present can also be zero.
AdditionalPropsSet ==
    { [ id |-> i.id, vector |-> v.vector,
        distance |-> d[1], distance_present |-> d[2],
        certainty |-> c.certainty, certainty_present |-> c.certainty_present,
        creation_time_unix |-> ct.creation_time_unix,
        creation_time_unix_present |-> ct.creation_time_unix_present,
        last_update_time_unix |-> ut.last_update_time_unix,
        last_update_time_unix_present |-> ut.last_update_time_unix_present,
        score |-> sc.score, score_present |-> sc.score_present,
        explain_score |-> es.explain_score, explain_score_present |-> es.explain_score_present ] :
      i \in {PropsAllPresent, PropsNonePresent}, v \in {PropsAllPresent, PropsNonePresent},
      d \in {<<"0.1", TRUE>>, <<"0.0", TRUE>>, <<"0.0", FALSE>>},
      c \in {PropsAllPresent, PropsNonePresent}, ct \in {PropsAllPresent, PropsNonePresent},
      ut \in {PropsAllPresent, PropsNonePresent}, sc \in {PropsAllPresent, PropsNonePresent},
      es \in {PropsAllPresent, PropsNonePresent} }

\* The metadata requests: none, or a MetadataQuery with any of its fields set.
MetadataRequests == {None} \cup {Some(m) : m \in SUBSET MetadataFields}

\* self._extract_metadata(props, meta)
ExtractMetadata ==
    /\ mdOut = None
    /\ mdOut' = Some(extract_metadata(mdProps, mdMeta))
    /\ UNCHANGED <<mdProps, mdMeta>>
    /\ UNCHANGED <<uuidVars, compareVars, registryVars, codecVars, queryVars, scopeVars, decodeVars, schemaVars, refVars, introVars, dynamicVars, legacyVars, batchVars>>

(***************************************************************************)
(* Decoding stored objects                                                 *)
(***************************************************************************)

\* A variant of the beacon split that takes the piece where
\* weaviate://localhost/<class>/<identifier> has its identifier.
SplitAtClassPath(uri) == IF Len(uri) >= 8 THEN uri[8] ELSE ""

\* uri.split("/")[-1]: what follows the last slash.
RECURSIVE SplitLast(_)
SplitLast(uri) ==
    IF uri = <<>> THEN ""
    ELSE IF uri[Len(uri)] = "/" THEN ""
    ELSE SplitLast(SubSeq(uri, 1, Len(uri) - 1)) \o uri[Len(uri)]

\* The result of _json_to_object: the instance and its metadata, or the
\* ValidationError of the model constructor.
Decoded(data, metadata) == [raised |-> FALSE, data |-> Some(data), metadata |-> Some(metadata)]
DecodeFailed == [raised |-> TRUE, data |-> None, metadata |-> None]

\* CollectionObjectModel._json_to_object: the beacons of every reference field
\* of the payload give way to what follows their last slash, then the model is
\* built from the properties alone and the metadata from the whole object.
json_to_object(model, obj) ==
    LET refs  == get_ref_fields(model)
        props == [f \in DOMAIN obj.properties |->
                    IF f \in refs
                    THEN Some([i \in DOMAIN obj.properties[f][1] |->
                                 SplitLast(obj.properties[f][1][i].beacon)])
                    ELSE obj.properties[f]]
        given == DOMAIN props \cap ModelFieldNames(model)
        missing == {f \in DeclaredFieldNames(model) : FieldOf(model, f).required /\ f \notin given}
    IN  IF missing # {} THEN DecodeFailed
        ELSE Decoded(NewInstance(model, given, NoUuid, None, props),
                     MetadataReturn(Some(obj.id), None, None, None, None, None, None, None))

\* How the remote spells the authority and path of the beacons it returns.
BeaconSpellings == {<<"localhost", TRUE>>, <<"localhost", FALSE>>, <<"other.host:8080", TRUE>>}

\* The object the remote returns for a wire object it stored: class, id and
\* properties, the beacons in the remote's own spelling, the null properties
\* kept or left out.
RemoteStored(model, wire, spelling, keep_nulls) ==
    LET refs == get_ref_fields(model)
        kept == {f \in DOMAIN wire.properties : keep_nulls \/ wire.properties[f] # None}
        respell(b) == BeaconUri(spelling[1],
                                IF spelling[2] THEN b.beacon[6] ELSE "",
                                b.beacon[Len(b.beacon)])
    IN  [ class |-> wire.class, id |-> wire.id[1],
          properties |-> [f \in kept |->
                            IF f \in refs
                            THEN Some([i \in DOMAIN wire.properties[f][1] |->
                                         [beacon |-> respell(wire.properties[f][1][i])]])
                            ELSE wire.properties[f]] ]

\* The instances the decoding scenarios store: of Doc with its reference given
\* as a list of identifiers (one of them no UUID), and of Plain.
RefValues == {None, Some(<<"u1">>), Some(<<"u2", "u1">>), Some(<<"not-a-uuid">>)}
DecodeInputs ==
    {[model |-> "Doc", given |-> g, uuid_arg |-> u,
      values |-> (F_x :> vx) @@ (F_y :> Some("1")) @@ (F_grp :> r)] :
        g \in {{F_grp}, {F_x, F_grp}, {F_uuid, F_x, F_y, F_grp}},
        u \in TestUuids, vx \in {None, Some("'s'")}, r \in RefValues}
    \cup
    {[model |-> "Plain", given |-> g, uuid_arg |-> u,
      values |-> (F_a :> Some(a)) @@ (F_b :> b) @@ (F_l :> Some(l))] :
        g \in {{F_a, F_l}, {F_a, F_b, F_l}, {F_uuid, F_a, F_l}, {F_uuid, F_vector, F_a, F_b, F_l}},
        u \in TestUuids, a \in {"1", "2"}, b \in {None, Some("'s'")},
        l \in {<<>>, <<"'p'", "'q'">>}}

\* Model(**data) of a decoding scenario.
Construct ==
    /\ decObj = None
    /\ \E in \in DecodeInputs :
          decObj' = Some(NewInstance(in.model, in.given, in.uuid_arg, DocVector,
                                     [f \in DOMAIN in.values |->
                                        IF f \in in.given THEN in.values[f] ELSE None]))
    /\ UNCHANGED <<decWire, decOut, defaultUuid, objs, lastOp>>
    /\ UNCHANGED <<uuidVars, compareVars, registryVars, queryVars, metadataVars, scopeVars, schemaVars, refVars, introVars, dynamicVars, legacyVars, batchVars>>

\* data.insert(obj) through the facade of the instance's model; the remote
\* stores the wire object.
Store ==
    /\ decObj # None /\ decWire = None
    /\ LET obj == decObj[1]
           r   == insert(Facade(Join(DeclaredModels[obj.cls].name), obj.cls), obj)
       IN  \E spelling \in BeaconSpellings, keep_nulls \in BOOLEAN :
              decWire' = Some(RemoteStored(obj.cls, r.calls[1].objs[1], spelling, keep_nulls))
    /\ UNCHANGED <<decObj, decOut, defaultUuid, objs, lastOp>>
    /\ UNCHANGED <<uuidVars, compareVars, registryVars, queryVars, metadataVars, scopeVars, schemaVars, refVars, introVars, dynamicVars, legacyVars, batchVars>>

\* data.get_by_id(uuid): the stored object comes back and is decoded.
GetById ==
    /\ decWire # None /\ decOut = None
    /\ decOut' = Some(json_to_object(decObj[1].cls, decWire[1]))
    /\ UNCHANGED <<decObj, decWire, defaultUuid, objs, lastOp>>
    /\ UNCHANGED <<uuidVars, compareVars, registryVars, queryVars, metadataVars, scopeVars, schemaVars, refVars, introVars, dynamicVars, legacyVars, batchVars>>

(***************************************************************************)
(* Schema derivation and reference targets on their own                    *)
(***************************************************************************)

\* BaseProperty.type_to_dict(model)
DeriveSchema ==
    /\ schemaOut = None
    /\ schemaOut' = Some(type_to_dict(schemaModel))
    /\ UNCHANGED schemaModel
    /\ UNCHANGED <<uuidVars, compareVars, registryVars, codecVars, queryVars, metadataVars, scopeVars, decodeVars, refVars, introVars, dynamicVars, legacyVars, batchVars>>

\* The longest reference target name tried.
MaxNameLen == 3

\* The characters target names are written with, and the targets: every name
\* as a type and as a string.
NameAlphabet == {"g", "G", "r", "1"}
RefTargets ==
    {TypeRef(n) : n \in SeqUpTo(NameAlphabet, MaxNameLen) \ {<<>>}}
    \cup {StrRef(n) : n \in SeqUpTo(NameAlphabet, MaxNameLen)}

\* ReferenceTo(ref_type).name
ResolveName ==
    /\ refName = None
    /\ refName' = Some(ReferenceToName(refType))
    /\ UNCHANGED <<refType, refAgain>>
    /\ UNCHANGED <<uuidVars, compareVars, registryVars, codecVars, queryVars, metadataVars, scopeVars, decodeVars, schemaVars, introVars, dynamicVars, legacyVars, batchVars>>

\* ReferenceTo(name).name of the name just resolved.
ResolveAgain ==
    /\ refName # None /\ refAgain = None
    /\ refAgain' = Some(ReferenceToName(StrRef(refName[1])))
    /\ UNCHANGED <<refType, refName>>
    /\ UNCHANGED <<uuidVars, compareVars, registryVars, codecVars, queryVars, metadataVars, scopeVars, decodeVars, schemaVars, introVars, dynamicVars, legacyVars, batchVars>>

(***************************************************************************)
(* Facades and their scope                                                 *)
(***************************************************************************)

\* The most facades made from one collection, and the most writes followed.
MaxFacades == 3
MaxScopeOps == 2

ScopeTenants == {None, Some("Tenant1"), Some("Tenant2")}
ConsistencyLevels == {None, Some("ONE"), Some("QUORUM")}

\* A facade with its scope: CollectionObjectModel carries the model it is bound
\* to, CollectionObject carries none.
ScopedFacade(n, m, tenant, consistency_level) ==
    [name |-> n, model |-> m, tenant |-> tenant, consistency_level |-> consistency_level]

\* CollectionObjectBase._with_tenant and _with_consistency_level: a new facade
\* on the same connection that differs from self in the one setting.
base_with_tenant(self, tenant) == [self EXCEPT !.tenant = tenant]
base_with_consistency_level(self, consistency_level) ==
    [self EXCEPT !.consistency_level = consistency_level]

\* A variant of with_tenant that also rebinds the facade it is called on.
with_tenant_in_place(heap, i, tenant) ==
    Append([heap EXCEPT ![i] = base_with_tenant(heap[i], tenant)], base_with_tenant(heap[i], tenant))

\* with_tenant and with_consistency_level of CollectionObjectModel and of
\* CollectionObject, called on the i-th facade of the heap: the facade returned
\* is a new object at the end of the heap.
with_tenant(heap, i, tenant) == Append(heap, base_with_tenant(heap[i], tenant))
with_consistency_level(heap, i, consistency_level) ==
    Append(heap, base_with_consistency_level(heap[i], consistency_level))

\* The scope a write through a facade goes out with.
ScopedWrite(heap, i) ==
    [facade |-> i, made |-> Len(heap), tenant |-> heap[i].tenant,
     consistency_level |-> heap[i].consistency_level]

WithTenant ==
    /\ Len(facades) < MaxFacades
    /\ \E i \in DOMAIN facades, t \in ScopeTenants : facades' = with_tenant(facades, i, t)
    /\ UNCHANGED scopeOps
    /\ UNCHANGED <<uuidVars, compareVars, registryVars, codecVars, queryVars, metadataVars, decodeVars, schemaVars, refVars, introVars, dynamicVars, legacyVars, batchVars>>

WithConsistencyLevel ==
    /\ Len(facades) < MaxFacades
    /\ \E i \in DOMAIN facades, cl \in ConsistencyLevels :
          facades' = with_consistency_level(facades, i, cl)
    /\ UNCHANGED scopeOps
    /\ UNCHANGED <<uuidVars, compareVars, registryVars, codecVars, queryVars, metadataVars, decodeVars, schemaVars, refVars, introVars, dynamicVars, legacyVars, batchVars>>

\* A write (insert, replace, update, ...) issued through the i-th facade.
WriteThrough ==
    /\ Len(scopeOps) < MaxScopeOps
    /\ \E i \in DOMAIN facades : scopeOps' = Append(scopeOps, ScopedWrite(facades, i))
    /\ UNCHANGED facades
    /\ UNCHANGED <<uuidVars, compareVars, registryVars, codecVars, queryVars, metadataVars, decodeVars, schemaVars, refVars, introVars, dynamicVars, legacyVars, batchVars>>

(***************************************************************************)
(* Field classification and optional unwrapping on their own               *)
(***************************************************************************)

\* BaseProperty.get_ref_fields(model)
GetRefFields ==
    /\ introRef = None
    /\ introRef' = Some(get_ref_fields(introModel))
    /\ UNCHANGED <<introModel, introPlain, unwrapIn, unwrapOut>>
    /\ UNCHANGED <<uuidVars, compareVars, registryVars, codecVars, queryVars, metadataVars, scopeVars, decodeVars, schemaVars, refVars, dynamicVars, legacyVars, batchVars>>

\* BaseProperty.get_non_ref_fields(model)
GetNonRefFields ==
    /\ introPlain = None
    /\ introPlain' = Some(get_non_ref_fields(introModel))
    /\ UNCHANGED <<introModel, introRef, unwrapIn, unwrapOut>>
    /\ UNCHANGED <<uuidVars, compareVars, registryVars, codecVars, queryVars, metadataVars, scopeVars, decodeVars, schemaVars, refVars, dynamicVars, legacyVars, batchVars>>

\* BaseProperty._remove_optional_type on the annotation of a declared field.
RemoveOptionalType ==
    /\ unwrapOut = None
    /\ \E n \in DeclaredFieldNames(introModel) :
          /\ unwrapIn' = Some(FieldOf(introModel, n).type)
          /\ unwrapOut' = Some(remove_optional_type(FieldOf(introModel, n).type))
    /\ UNCHANGED <<introModel, introRef, introPlain>>
    /\ UNCHANGED <<uuidVars, compareVars, registryVars, codecVars, queryVars, metadataVars, scopeVars, decodeVars, schemaVars, refVars, dynamicVars, legacyVars, batchVars>>

(***************************************************************************)
(* A model synthesized from the remote schema (CollectionModel.get_dynamic) *)
(***************************************************************************)

\* The longest property list the remote answers with.
MaxDynProps == 2

\* The type mapping table read from the remote data type to the local type.
DatatypeToPythonType ==
    ("text" :> "str") @@ ("int" :> "int") @@ ("number" :> "float") @@ ("boolean" :> "bool")
    @@ ("text[]" :> "List[str]") @@ ("int[]" :> "List[int]")

\* The answers of GET /schema/<Name>: no answer at all, or a status with the
\* class and its property list.
NoAnswer == [kind |-> "ConnectionError", status_code |-> 0, class |-> <<>>, properties |-> <<>>]
SchemaAnswer(status, class, props) ==
    [kind |-> "response", status_code |-> status, class |-> class, properties |-> props]
RemoteProperty(n, dt) == [name |-> n, dataType |-> <<dt>>]
RemoteProperties == {RemoteProperty(n, dt) : n \in {F_a, F_b}, dt \in {"text", "int", "text[]", "Group"}}

\* The model_fields of a declared class, as a dict.
ModelFieldsDict(base) ==
    [n \in DeclaredFieldNames(base) |-> FieldOf(base, n)]

\* pydantic.create_model(name, __base__=base, **fields): the fields of the
\* base, and the given ones over them.
create_model(name, fields, base) ==
    [name |-> name, fields |-> fields @@ ModelFieldsDict(base)]

\* The last property of a name in the list: a dict comprehension keeps the
\* last value written under a key.
LastNamed(props, n) ==
    props[CHOOSE i \in DOMAIN props :
            /\ props[i].name = n
            /\ \A j \in DOMAIN props : props[j].name = n => j <= i]

DynOutcome(o, m) == [outcome |-> o, model |-> m]

\* A variant of get_dynamic that declares every field by its type alone, so
\* that the field is required and has no default.
get_dynamic_required_fields(base, response) ==
    IF response.kind = "ConnectionError" THEN DynOutcome("RequestsConnectionError", None)
    ELSE IF response.status_code # 200 THEN DynOutcome("UnexpectedStatusCodeException", None)
    ELSE IF \E i \in DOMAIN response.properties :
                response.properties[i].dataType[1] \notin DOMAIN DatatypeToPythonType
    THEN DynOutcome("KeyError", None)
    ELSE LET names  == {response.properties[i].name : i \in DOMAIN response.properties}
             fields == [n \in names |->
                          FieldDecl(n, DatatypeToPythonType[LastNamed(response.properties, n).dataType[1]],
                                    NoMeta, None, TRUE)]
         IN  DynOutcome("ok", Some(create_model(response.class, fields, base)))

\* CollectionModel.get_dynamic: every property becomes the field definition
\* (type, None), a field of that type whose default is None.
get_dynamic(base, response) ==
    IF response.kind = "ConnectionError" THEN DynOutcome("RequestsConnectionError", None)
    ELSE IF response.status_code # 200 THEN DynOutcome("UnexpectedStatusCodeException", None)
    ELSE IF \E i \in DOMAIN response.properties :
                response.properties[i].dataType[1] \notin DOMAIN DatatypeToPythonType
    THEN DynOutcome("KeyError", None)
    ELSE LET names  == {response.properties[i].name : i \in DOMAIN response.properties}
             fields == [n \in names |->
                          FieldDecl(n, DatatypeToPythonType[LastNamed(response.properties, n).dataType[1]],
                                    NoMeta, None, FALSE)]
         IN  DynOutcome("ok", Some(create_model(response.class, fields, base)))

\* Model(): an instance made with no data. A required field raises
\* ValidationError; every other field takes its default.
EmptyInstance(model) ==
    IF \E n \in DOMAIN model.fields : model.fields[n].required
    THEN [outcome |-> "ValidationError", vals |-> << >>]
    ELSE [outcome |-> "ok", vals |-> [n \in DOMAIN model.fields |-> model.fields[n].default]]

\* The classes get_dynamic is called through: one without fields of its own,
\* one with a required field a.
DynamicBases == {"Gen_Absent_Absent", "M1"}

GetDynamic ==
    /\ dynOut = None
    /\ \E base \in DynamicBases :
          dynOut' = Some(get_dynamic(base, dynResp[1]))
    /\ UNCHANGED <<dynResp, dynObj>>
    /\ UNCHANGED <<uuidVars, compareVars, registryVars, codecVars, queryVars, metadataVars, scopeVars, decodeVars, schemaVars, refVars, introVars, legacyVars, batchVars>>

\* The synthesized model is instantiated with no data.
ConstructDynamic ==
    /\ dynOut # None /\ dynOut[1].outcome = "ok"
    /\ dynObj = None
    /\ dynObj' = Some(EmptyInstance(dynOut[1].model[1]))
    /\ UNCHANGED <<dynResp, dynOut>>
    /\ UNCHANGED <<uuidVars, compareVars, registryVars, codecVars, queryVars, metadataVars, scopeVars, decodeVars, schemaVars, refVars, introVars, legacyVars, batchVars>>

(***************************************************************************)
(* The legacy REST client: create_schema                                   *)
(***************************************************************************)

\* The most classes under "things" and under "actions".
MaxLegacyClasses == 2

SCHEMA_CLASS_TYPE_THINGS == "things"
SCHEMA_CLASS_TYPE_ACTIONS == "actions"

\* A class of a schema dict, and the schema dicts: each of the two class types
\* is absent (None) or holds a list of classes. NoSchemaGiven is schema=None.
LegacyClass(c, props) == [class |-> c, properties |-> props]
LegacyClasses == {LegacyClass(c, ps) : c \in {"A", "B"}, ps \in {<<>>, <<"p">>}}
LegacyClassLists == {None} \cup {Some(l) : l \in SeqUpTo(LegacyClasses, MaxLegacyClasses)}
NoSchemaGiven == [given |-> FALSE, things |-> None, actions |-> None]
SchemaDict(things, actions) == [given |-> TRUE, things |-> things, actions |-> actions]

RestCall(kind, path, name) == [kind |-> kind, path |-> path, name |-> name]

\* Client._create_class: one POST /schema/<type> per class, in list order.
create_class(schema_class_type, schema_classes_list) ==
    [i \in DOMAIN schema_classes_list |->
        RestCall("class", <<"schema", schema_class_type>>, schema_classes_list[i].class)]

\* Client._create_properties: for every class in list order, one POST
\* /schema/<type>/<class>/properties per property, in list order.
RECURSIVE create_properties(_, _)
create_properties(schema_class_type, schema_classes_list) ==
    IF schema_classes_list = <<>> THEN <<>>
    ELSE LET schema_class == Head(schema_classes_list)
         IN  [k \in DOMAIN schema_class.properties |->
                 RestCall("property",
                          <<"schema", schema_class_type, schema_class.class, "properties">>,
                          schema_class.properties[k])]
             \o create_properties(schema_class_type, Tail(schema_classes_list))

\* A variant of create_schema that finishes one class type, properties
\* included, before it starts the other.
create_schema_type_by_type(loaded_schema) ==
    (IF loaded_schema.things # None
     THEN create_class(SCHEMA_CLASS_TYPE_THINGS, loaded_schema.things[1])
          \o create_properties(SCHEMA_CLASS_TYPE_THINGS, loaded_schema.things[1])
     ELSE <<>>)
    \o
    (IF loaded_schema.actions # None
     THEN create_class(SCHEMA_CLASS_TYPE_ACTIONS, loaded_schema.actions[1])
          \o create_properties(SCHEMA_CLASS_TYPE_ACTIONS, loaded_schema.actions[1])
     ELSE <<>>)

\* Client.create_schema on a loaded schema: the REST calls it makes in order
\* as long as every one is answered with 200.
create_schema(loaded_schema) ==
    (IF loaded_schema.things # None
     THEN create_class(SCHEMA_CLASS_TYPE_THINGS, loaded_schema.things[1]) ELSE <<>>)
    \o
    (IF loaded_schema.actions # None
     THEN create_class(SCHEMA_CLASS_TYPE_ACTIONS, loaded_schema.actions[1]) ELSE <<>>)
    \o
    (IF loaded_schema.things # None
     THEN create_properties(SCHEMA_CLASS_TYPE_THINGS, loaded_schema.things[1]) ELSE <<>>)
    \o
    (IF loaded_schema.actions # None
     THEN create_properties(SCHEMA_CLASS_TYPE_ACTIONS, loaded_schema.actions[1]) ELSE <<>>)

\* The status codes the remote answers a schema POST with.
LegacyStatuses == {200, 422}

\* create_schema(None) raises TypeError before anything else.
CreateSchemaRejects ==
    /\ lgPc = "start" /\ ~lgSchema.given
    /\ lgPc' = "done"
    /\ lgOutcome' = Some("TypeError")
    /\ UNCHANGED <<lgSchema, lgCalls>>
    /\ UNCHANGED <<uuidVars, compareVars, registryVars, codecVars, queryVars, metadataVars, scopeVars, decodeVars, schemaVars, refVars, introVars, dynamicVars, batchVars>>

\* The next run_rest of create_schema and the check of its status code: any
\* status but 200 raises UnexpectedStatusCodeException out of create_schema.
CreateSchemaRest ==
    /\ lgPc \in {"start", "calling"} /\ lgSchema.given
    /\ Len(lgCalls) < Len(create_schema(lgSchema))
    /\ \E status \in LegacyStatuses :
          /\ lgCalls' = Append(lgCalls, [call |-> create_schema(lgSchema)[Len(lgCalls) + 1],
                                         status_code |-> status])
          /\ IF status # 200
             THEN lgPc' = "done" /\ lgOutcome' = Some("UnexpectedStatusCodeException")
             ELSE lgPc' = "calling" /\ UNCHANGED lgOutcome
    /\ UNCHANGED lgSchema
    /\ UNCHANGED <<uuidVars, compareVars, registryVars, codecVars, queryVars, metadataVars, scopeVars, decodeVars, schemaVars, refVars, introVars, dynamicVars, batchVars>>

\* Every call was answered with 200: create_schema returns.
CreateSchemaReturns ==
    /\ lgPc \in {"start", "calling"} /\ lgSchema.given
    /\ Len(lgCalls) = Len(create_schema(lgSchema))
    /\ lgPc' = "done"
    /\ lgOutcome' = Some("ok")
    /\ UNCHANGED <<lgSchema, lgCalls>>
    /\ UNCHANGED <<uuidVars, compareVars, registryVars, codecVars, queryVars, metadataVars, scopeVars, decodeVars, schemaVars, refVars, introVars, dynamicVars, batchVars>>

(***************************************************************************)
(* The legacy REST client: add_references_in_batch                         *)
(***************************************************************************)

\* The longest reference batch.
MaxBatch == 2

\* The references of a batch request, and what run_rest comes back with: a
\* response with its status code and JSON body, or a ConnectionError.
BatchReferences == {[from_uuid |-> f, to_uuid |-> t] : f, t \in {"u1", "u2"}}
RestResponse(status) == [kind |-> "response", status_code |-> status, json |-> <<"body", status>>]
RestConnectionError == [kind |-> "ConnectionError", status_code |-> 0, json |-> <<>>]
BatchAnswers == {RestConnectionError} \cup {RestResponse(st) : st \in {200, 401, 403, 422, 500, 400, 404}}

BatchOutcome(calls, raised, carries) == [calls |-> calls, raised |-> raised, carries |-> carries]

\* Client.add_references_in_batch. In the last branch the name json is the
\* json module, and calling a module raises TypeError before the exception
\* that was to carry the body is made.
add_references_in_batch(reference_batch_request, answer) ==
    IF Len(reference_batch_request) = 0 THEN BatchOutcome(<<>>, None, None)
    ELSE LET calls == <<[path |-> "/batching/references", method |-> "POST",
                         body |-> reference_batch_request]>>
         IN  IF answer.kind = "ConnectionError" THEN BatchOutcome(calls, Some("ConnectionError"), None)
             ELSE IF answer.status_code = 200 THEN BatchOutcome(calls, None, None)
             ELSE IF answer.status_code = 401 THEN BatchOutcome(calls, Some("UnauthorizedRequest401Exception"), None)
             ELSE IF answer.status_code = 403 THEN BatchOutcome(calls, Some("ForbiddenRequest403Exception"), None)
             ELSE IF answer.status_code = 422 THEN BatchOutcome(calls, Some("SemanticError422Exception"), None)
             ELSE IF answer.status_code = 500
             THEN BatchOutcome(calls, Some("ServerError500Exception"), Some(answer.json))
             ELSE BatchOutcome(calls, Some("TypeError"), None)

AddReferencesInBatch ==
    /\ brOutcome = None
    /\ \E answer \in BatchAnswers :
          LET r == add_references_in_batch(brBatch, answer)
          IN  /\ brCalls' = r.calls
              /\ brOutcome' = Some([answer |-> answer, raised |-> r.raised, carries |-> r.carries])
    /\ UNCHANGED brBatch
    /\ UNCHANGED <<uuidVars, compareVars, registryVars, codecVars, queryVars, metadataVars, scopeVars, decodeVars, schemaVars, refVars, introVars, dynamicVars, legacyVars>>

(***************************************************************************)
(* Specifications                                                          *)
(***************************************************************************)

\* The idle values of each part of the state, taken while another part runs.
IdleGrpc == NewGrpc("", None, None)

\* A value is drawn for the validator.
InitUuid ==
    /\ uIn \in UuidInputs /\ uOut = NoUuid /\ uAgain = NoUuid /\ uLog = {}
    /\ cmpS = <<>> /\ cmpT = <<>> /\ cmpRes = None
    /\ remote = <<>> /\ lastGet = NoGet
    /\ defaultUuid = NoUuid /\ objs = <<>> /\ lastOp = NoOp
    /\ grpc = IdleGrpc /\ verbsCalled = <<>> /\ nSearch = 0 /\ lastCall = NoCall
    /\ mdProps = None /\ mdMeta = None /\ mdOut = None
    /\ facades = <<>> /\ scopeOps = <<>>
    /\ decObj = None /\ decWire = None /\ decOut = None
    /\ schemaModel = "" /\ schemaOut = None
    /\ refType = None /\ refName = None /\ refAgain = None
    /\ introModel = "" /\ introRef = None /\ introPlain = None /\ unwrapIn = None /\ unwrapOut = None
    /\ dynResp = None /\ dynOut = None /\ dynObj = None
    /\ lgSchema = <<>> /\ lgPc = "idle" /\ lgCalls = <<>> /\ lgOutcome = None
    /\ brBatch = <<>> /\ brCalls = <<>> /\ brOutcome = None

NextUuid == Normalize \/ NormalizeAgain \/ NormalizeSame

SpecUuid == InitUuid /\ [][NextUuid]_vars

\* Two property lists are drawn for compare.
InitCompare ==
    /\ uIn = NoUuid /\ uOut = NoUuid /\ uAgain = NoUuid /\ uLog = {}
    /\ cmpS \in SeqUpTo(ComparePairs, MaxCompareLen)
    /\ cmpT \in SeqUpTo(ComparePairs, MaxCompareLen)
    /\ cmpRes = None
    /\ remote = <<>> /\ lastGet = NoGet
    /\ defaultUuid = NoUuid /\ objs = <<>> /\ lastOp = NoOp
    /\ grpc = IdleGrpc /\ verbsCalled = <<>> /\ nSearch = 0 /\ lastCall = NoCall
    /\ mdProps = None /\ mdMeta = None /\ mdOut = None
    /\ facades = <<>> /\ scopeOps = <<>>
    /\ decObj = None /\ decWire = None /\ decOut = None
    /\ schemaModel = "" /\ schemaOut = None
    /\ refType = None /\ refName = None /\ refAgain = None
    /\ introModel = "" /\ introRef = None /\ introPlain = None /\ unwrapIn = None /\ unwrapOut = None
    /\ dynResp = None /\ dynOut = None /\ dynObj = None
    /\ lgSchema = <<>> /\ lgPc = "idle" /\ lgCalls = <<>> /\ lgOutcome = None
    /\ brBatch = <<>> /\ brCalls = <<>> /\ brOutcome = None

NextCompare == ApplyCompare

SpecCompare == InitCompare /\ [][NextCompare]_vars

\* The remote holds no class yet.
InitRegistry ==
    /\ uIn = NoUuid /\ uOut = NoUuid /\ uAgain = NoUuid /\ uLog = {}
    /\ cmpS = <<>> /\ cmpT = <<>> /\ cmpRes = None
    /\ remote = [c \in RemoteClasses |-> None] /\ lastGet = NoGet
    /\ defaultUuid = NoUuid /\ objs = <<>> /\ lastOp = NoOp
    /\ grpc = IdleGrpc /\ verbsCalled = <<>> /\ nSearch = 0 /\ lastCall = NoCall
    /\ mdProps = None /\ mdMeta = None /\ mdOut = None
    /\ facades = <<>> /\ scopeOps = <<>>
    /\ decObj = None /\ decWire = None /\ decOut = None
    /\ schemaModel = "" /\ schemaOut = None
    /\ refType = None /\ refName = None /\ refAgain = None
    /\ introModel = "" /\ introRef = None /\ introPlain = None /\ unwrapIn = None /\ unwrapOut = None
    /\ dynResp = None /\ dynOut = None /\ dynObj = None
    /\ lgSchema = <<>> /\ lgPc = "idle" /\ lgCalls = <<>> /\ lgOutcome = None
    /\ brBatch = <<>> /\ brCalls = <<>> /\ brOutcome = None

NextRegistry == Create \/ RemoteChange \/ Get

SpecRegistry == InitRegistry /\ [][NextRegistry]_vars

\* The class body of BaseProperty has run once: the default of the uuid field
\* is drawn; no instance exists yet.
InitCodec ==
    /\ uIn = NoUuid /\ uOut = NoUuid /\ uAgain = NoUuid /\ uLog = {}
    /\ cmpS = <<>> /\ cmpT = <<>> /\ cmpRes = None
    /\ remote = <<>> /\ lastGet = NoGet
    /\ defaultUuid \in DefaultUuids /\ objs = <<>> /\ lastOp = NoOp
    /\ grpc = IdleGrpc /\ verbsCalled = <<>> /\ nSearch = 0 /\ lastCall = NoCall
    /\ mdProps = None /\ mdMeta = None /\ mdOut = None
    /\ facades = <<>> /\ scopeOps = <<>>
    /\ decObj = None /\ decWire = None /\ decOut = None
    /\ schemaModel = "" /\ schemaOut = None
    /\ refType = None /\ refName = None /\ refAgain = None
    /\ introModel = "" /\ introRef = None /\ introPlain = None /\ unwrapIn = None /\ unwrapOut = None
    /\ dynResp = None /\ dynOut = None /\ dynObj = None
    /\ lgSchema = <<>> /\ lgPc = "idle" /\ lgCalls = <<>> /\ lgOutcome = None
    /\ brBatch = <<>> /\ brCalls = <<>> /\ brOutcome = None

NextCodec == ConstructDoc \/ ConstructOther \/ Discard \/ Insert \/ InsertMany \/ InsertManyUntyped \/ Replace \/ Update

SpecCodec == InitCodec /\ [][NextCodec]_vars

\* A builder fresh from __init__, bound to the collection and a tenant.
InitQuery ==
    /\ uIn = NoUuid /\ uOut = NoUuid /\ uAgain = NoUuid /\ uLog = {}
    /\ cmpS = <<>> /\ cmpT = <<>> /\ cmpRes = None
    /\ remote = <<>> /\ lastGet = NoGet
    /\ defaultUuid = NoUuid /\ objs = <<>> /\ lastOp = NoOp
    /\ grpc \in {NewGrpc(DocFacade.name, t, None) : t \in Tenants}
    /\ verbsCalled = <<>> /\ nSearch = 0 /\ lastCall = NoCall
    /\ mdProps = None /\ mdMeta = None /\ mdOut = None
    /\ facades = <<>> /\ scopeOps = <<>>
    /\ decObj = None /\ decWire = None /\ decOut = None
    /\ schemaModel = "" /\ schemaOut = None
    /\ refType = None /\ refName = None /\ refAgain = None
    /\ introModel = "" /\ introRef = None /\ introPlain = None /\ unwrapIn = None /\ unwrapOut = None
    /\ dynResp = None /\ dynOut = None /\ dynObj = None
    /\ lgSchema = <<>> /\ lgPc = "idle" /\ lgCalls = <<>> /\ lgOutcome = None
    /\ brBatch = <<>> /\ brCalls = <<>> /\ brOutcome = None

NextQuery == VerbGet \/ VerbHybrid \/ VerbBm25 \/ VerbNearVector \/ VerbNearObject \/ NewBuilder

SpecQuery == InitQuery /\ [][NextQuery]_vars

\* A row's additional properties and a metadata request are drawn.
InitMetadata ==
    /\ uIn = NoUuid /\ uOut = NoUuid /\ uAgain = NoUuid /\ uLog = {}
    /\ cmpS = <<>> /\ cmpT = <<>> /\ cmpRes = None
    /\ remote = <<>> /\ lastGet = NoGet
    /\ defaultUuid = NoUuid /\ objs = <<>> /\ lastOp = NoOp
    /\ grpc = IdleGrpc /\ verbsCalled = <<>> /\ nSearch = 0 /\ lastCall = NoCall
    /\ mdProps \in AdditionalPropsSet /\ mdMeta \in MetadataRequests /\ mdOut = None
    /\ facades = <<>> /\ scopeOps = <<>>
    /\ decObj = None /\ decWire = None /\ decOut = None
    /\ schemaModel = "" /\ schemaOut = None
    /\ refType = None /\ refName = None /\ refAgain = None
    /\ introModel = "" /\ introRef = None /\ introPlain = None /\ unwrapIn = None /\ unwrapOut = None
    /\ dynResp = None /\ dynOut = None /\ dynObj = None
    /\ lgSchema = <<>> /\ lgPc = "idle" /\ lgCalls = <<>> /\ lgOutcome = None
    /\ brBatch = <<>> /\ brCalls = <<>> /\ brOutcome = None

NextMetadata == ExtractMetadata

SpecMetadata == InitMetadata /\ [][NextMetadata]_vars

\* One facade of the collection, with or without a model, in any scope.
InitScope ==
    /\ uIn = NoUuid /\ uOut = NoUuid /\ uAgain = NoUuid /\ uLog = {}
    /\ cmpS = <<>> /\ cmpT = <<>> /\ cmpRes = None
    /\ remote = <<>> /\ lastGet = NoGet
    /\ defaultUuid = NoUuid /\ objs = <<>> /\ lastOp = NoOp
    /\ grpc = IdleGrpc /\ verbsCalled = <<>> /\ nSearch = 0 /\ lastCall = NoCall
    /\ mdProps = None /\ mdMeta = None /\ mdOut = None
    /\ facades \in {<<ScopedFacade(Join(N_Doc), m, t, cl)>> :
                        m \in {None, Some("Doc")}, t \in ScopeTenants, cl \in ConsistencyLevels}
    /\ scopeOps = <<>>
    /\ decObj = None /\ decWire = None /\ decOut = None
    /\ schemaModel = "" /\ schemaOut = None
    /\ refType = None /\ refName = None /\ refAgain = None
    /\ introModel = "" /\ introRef = None /\ introPlain = None /\ unwrapIn = None /\ unwrapOut = None
    /\ dynResp = None /\ dynOut = None /\ dynObj = None
    /\ lgSchema = <<>> /\ lgPc = "idle" /\ lgCalls = <<>> /\ lgOutcome = None
    /\ brBatch = <<>> /\ brCalls = <<>> /\ brOutcome = None

NextScope == WithTenant \/ WithConsistencyLevel \/ WriteThrough

SpecScope == InitScope /\ [][NextScope]_vars

\* The class body of BaseProperty has run once; nothing is stored yet.
InitDecode ==
    /\ uIn = NoUuid /\ uOut = NoUuid /\ uAgain = NoUuid /\ uLog = {}
    /\ cmpS = <<>> /\ cmpT = <<>> /\ cmpRes = None
    /\ remote = <<>> /\ lastGet = NoGet
    /\ defaultUuid \in DefaultUuids /\ objs = <<>> /\ lastOp = NoOp
    /\ grpc = IdleGrpc /\ verbsCalled = <<>> /\ nSearch = 0 /\ lastCall = NoCall
    /\ mdProps = None /\ mdMeta = None /\ mdOut = None
    /\ facades = <<>> /\ scopeOps = <<>>
    /\ decObj = None /\ decWire = None /\ decOut = None
    /\ schemaModel = "" /\ schemaOut = None
    /\ refType = None /\ refName = None /\ refAgain = None
    /\ introModel = "" /\ introRef = None /\ introPlain = None /\ unwrapIn = None /\ unwrapOut = None
    /\ dynResp = None /\ dynOut = None /\ dynObj = None
    /\ lgSchema = <<>> /\ lgPc = "idle" /\ lgCalls = <<>> /\ lgOutcome = None
    /\ brBatch = <<>> /\ brCalls = <<>> /\ brOutcome = None

NextDecode == Construct \/ Store \/ GetById

SpecDecode == InitDecode /\ [][NextDecode]_vars

\* A model class is drawn for type_to_dict.
InitSchema ==
    /\ uIn = NoUuid /\ uOut = NoUuid /\ uAgain = NoUuid /\ uLog = {}
    /\ cmpS = <<>> /\ cmpT = <<>> /\ cmpRes = None
    /\ remote = <<>> /\ lastGet = NoGet
    /\ defaultUuid = NoUuid /\ objs = <<>> /\ lastOp = NoOp
    /\ grpc = IdleGrpc /\ verbsCalled = <<>> /\ nSearch = 0 /\ lastCall = NoCall
    /\ mdProps = None /\ mdMeta = None /\ mdOut = None
    /\ facades = <<>> /\ scopeOps = <<>>
    /\ decObj = None /\ decWire = None /\ decOut = None
    /\ schemaModel \in ModelIds /\ schemaOut = None
    /\ refType = None /\ refName = None /\ refAgain = None
    /\ introModel = "" /\ introRef = None /\ introPlain = None /\ unwrapIn = None /\ unwrapOut = None
    /\ dynResp = None /\ dynOut = None /\ dynObj = None
    /\ lgSchema = <<>> /\ lgPc = "idle" /\ lgCalls = <<>> /\ lgOutcome = None
    /\ brBatch = <<>> /\ brCalls = <<>> /\ brOutcome = None

NextSchema == DeriveSchema

SpecSchema == InitSchema /\ [][NextSchema]_vars

\* A reference target is drawn.
InitRefName ==
    /\ uIn = NoUuid /\ uOut = NoUuid /\ uAgain = NoUuid /\ uLog = {}
    /\ cmpS = <<>> /\ cmpT = <<>> /\ cmpRes = None
    /\ remote = <<>> /\ lastGet = NoGet
    /\ defaultUuid = NoUuid /\ objs = <<>> /\ lastOp = NoOp
    /\ grpc = IdleGrpc /\ verbsCalled = <<>> /\ nSearch = 0 /\ lastCall = NoCall
    /\ mdProps = None /\ mdMeta = None /\ mdOut = None
    /\ facades = <<>> /\ scopeOps = <<>>
    /\ decObj = None /\ decWire = None /\ decOut = None
    /\ schemaModel = "" /\ schemaOut = None
    /\ refType \in RefTargets /\ refName = None /\ refAgain = None
    /\ introModel = "" /\ introRef = None /\ introPlain = None /\ unwrapIn = None /\ unwrapOut = None
    /\ dynResp = None /\ dynOut = None /\ dynObj = None
    /\ lgSchema = <<>> /\ lgPc = "idle" /\ lgCalls = <<>> /\ lgOutcome = None
    /\ brBatch = <<>> /\ brCalls = <<>> /\ brOutcome = None

NextRefName == ResolveName \/ ResolveAgain

SpecRefName == InitRefName /\ [][NextRefName]_vars

\* The remote's answer to GET /schema/<Name> is drawn.
InitDynamic ==
    /\ uIn = NoUuid /\ uOut = NoUuid /\ uAgain = NoUuid /\ uLog = {}
    /\ cmpS = <<>> /\ cmpT = <<>> /\ cmpRes = None
    /\ remote = <<>> /\ lastGet = NoGet
    /\ defaultUuid = NoUuid /\ objs = <<>> /\ lastOp = NoOp
    /\ grpc = IdleGrpc /\ verbsCalled = <<>> /\ nSearch = 0 /\ lastCall = NoCall
    /\ mdProps = None /\ mdMeta = None /\ mdOut = None
    /\ facades = <<>> /\ scopeOps = <<>>
    /\ decObj = None /\ decWire = None /\ decOut = None
    /\ schemaModel = "" /\ schemaOut = None
    /\ refType = None /\ refName = None /\ refAgain = None
    /\ introModel = "" /\ introRef = None /\ introPlain = None /\ unwrapIn = None /\ unwrapOut = None
    /\ dynResp \in {Some(NoAnswer)} \cup
                   {Some(SchemaAnswer(st, <<"D", "y", "n">>, ps)) :
                        st \in {200, 404}, ps \in SeqUpTo(RemoteProperties, MaxDynProps)}
    /\ dynOut = None /\ dynObj = None
    /\ lgSchema = <<>> /\ lgPc = "idle" /\ lgCalls = <<>> /\ lgOutcome = None
    /\ brBatch = <<>> /\ brCalls = <<>> /\ brOutcome = None

NextDynamic == GetDynamic \/ ConstructDynamic

SpecDynamic == InitDynamic /\ [][NextDynamic]_vars

\* A model class is drawn for the introspection helpers.
InitIntrospect ==
    /\ uIn = NoUuid /\ uOut = NoUuid /\ uAgain = NoUuid /\ uLog = {}
    /\ cmpS = <<>> /\ cmpT = <<>> /\ cmpRes = None
    /\ remote = <<>> /\ lastGet = NoGet
    /\ defaultUuid = NoUuid /\ objs = <<>> /\ lastOp = NoOp
    /\ grpc = IdleGrpc /\ verbsCalled = <<>> /\ nSearch = 0 /\ lastCall = NoCall
    /\ mdProps = None /\ mdMeta = None /\ mdOut = None
    /\ facades = <<>> /\ scopeOps = <<>>
    /\ decObj = None /\ decWire = None /\ decOut = None
    /\ schemaModel = "" /\ schemaOut = None
    /\ refType = None /\ refName = None /\ refAgain = None
    /\ introModel \in ModelIds /\ introRef = None /\ introPlain = None /\ unwrapIn = None /\ unwrapOut = None
    /\ dynResp = None /\ dynOut = None /\ dynObj = None
    /\ lgSchema = <<>> /\ lgPc = "idle" /\ lgCalls = <<>> /\ lgOutcome = None
    /\ brBatch = <<>> /\ brCalls = <<>> /\ brOutcome = None

NextIntrospect == GetRefFields \/ GetNonRefFields \/ RemoveOptionalType

SpecIntrospect == InitIntrospect /\ [][NextIntrospect]_vars

\* The schema passed to create_schema is drawn.
InitLegacySchema ==
    /\ uIn = NoUuid /\ uOut = NoUuid /\ uAgain = NoUuid /\ uLog = {}
    /\ cmpS = <<>> /\ cmpT = <<>> /\ cmpRes = None
    /\ remote = <<>> /\ lastGet = NoGet
    /\ defaultUuid = NoUuid /\ objs = <<>> /\ lastOp = NoOp
    /\ grpc = IdleGrpc /\ verbsCalled = <<>> /\ nSearch = 0 /\ lastCall = NoCall
    /\ mdProps = None /\ mdMeta = None /\ mdOut = None
    /\ facades = <<>> /\ scopeOps = <<>>
    /\ decObj = None /\ decWire = None /\ decOut = None
    /\ schemaModel = "" /\ schemaOut = None
    /\ refType = None /\ refName = None /\ refAgain = None
    /\ introModel = "" /\ introRef = None /\ introPlain = None /\ unwrapIn = None /\ unwrapOut = None
    /\ dynResp = None /\ dynOut = None /\ dynObj = None
    /\ lgSchema \in {NoSchemaGiven} \cup {SchemaDict(t, a) : t, a \in LegacyClassLists}
    /\ lgPc = "start" /\ lgCalls = <<>> /\ lgOutcome = None
    /\ brBatch = <<>> /\ brCalls = <<>> /\ brOutcome = None

NextLegacySchema == CreateSchemaRejects \/ CreateSchemaRest \/ CreateSchemaReturns

SpecLegacySchema == InitLegacySchema /\ [][NextLegacySchema]_vars

\* The batch passed to add_references_in_batch is drawn.
InitBatchRefs ==
    /\ uIn = NoUuid /\ uOut = NoUuid /\ uAgain = NoUuid /\ uLog = {}
    /\ cmpS = <<>> /\ cmpT = <<>> /\ cmpRes = None
    /\ remote = <<>> /\ lastGet = NoGet
    /\ defaultUuid = NoUuid /\ objs = <<>> /\ lastOp = NoOp
    /\ grpc = IdleGrpc /\ verbsCalled = <<>> /\ nSearch = 0 /\ lastCall = NoCall
    /\ mdProps = None /\ mdMeta = None /\ mdOut = None
    /\ facades = <<>> /\ scopeOps = <<>>
    /\ decObj = None /\ decWire = None /\ decOut = None
    /\ schemaModel = "" /\ schemaOut = None
    /\ refType = None /\ refName = None /\ refAgain = None
    /\ introModel = "" /\ introRef = None /\ introPlain = None /\ unwrapIn = None /\ unwrapOut = None
    /\ dynResp = None /\ dynOut = None /\ dynObj = None
    /\ lgSchema = <<>> /\ lgPc = "idle" /\ lgCalls = <<>> /\ lgOutcome = None
    /\ brBatch \in SeqUpTo(BatchReferences, MaxBatch) /\ brCalls = <<>> /\ brOutcome = None

NextBatchRefs == AddReferencesInBatch

SpecBatchRefs == InitBatchRefs /\ [][NextBatchRefs]_vars

(***************************************************************************)
(* Properties                                                              *)
(***************************************************************************)

\* The properties payload of the write the last facade operation issued.
LastPayload == lastOp.calls[1].objs[1].properties

\* C1: partial update. For an instance on which only the plain field x was
\* explicitly set, the properties payload built by update contains x and omits
\* every other plain field that was never explicitly set.
C1_UpdateOmitsUnsetFields ==
    (lastOp.op = "update" /\ lastOp.outcome = "ok") =>
        LET obj   == lastOp.args[1]
            plain == get_non_ref_fields(obj.cls)
        IN  \A x \in plain :
                (obj.fields_set \cap plain = {x}) =>
                    /\ x \in DOMAIN LastPayload
                    /\ \A f \in plain \ {x} : f \notin DOMAIN LastPayload

\* The {name, dataType} pairs of a property list, and whether two lists hold
\* the same pairs the same number of times.
NameAndType(props) == [i \in DOMAIN props |-> <<props[i].name, props[i].dataType>>]
Count(s, e) == Cardinality({i \in DOMAIN s : s[i] = e})
SameBag(s, t) == \A e \in Range(s) \cup Range(t) : Count(s, e) = Count(t, e)

\* The last registry call was a get that fetched a schema.
SchemaFetched == lastGet.call = "get" /\ lastGet.response.kind = "response" /\ lastGet.response.status = 200
PairsAgree == SameBag(NameAndType(type_to_dict(lastGet.model)), NameAndType(lastGet.response.properties))

\* C2: get(model) fails with the schema-mismatch error whenever the
\* {name, dataType} pairs of the fetched remote schema differ from those derived
\* from the local model, and then returns no facade.
C2_GetRejectsMismatch ==
    (SchemaFetched /\ ~PairsAgree) => (lastGet.outcome = "TypeError" /\ lastGet.facade = None)

\* C3: get(model) returns a facade bound to the model's canonical collection
\* name, without raising, whenever the remote schema's {name, dataType} pairs
\* are exactly those derived from the model.
C3_GetBindsMatchingSchema ==
    (SchemaFetched /\ PairsAgree) =>
        /\ lastGet.outcome = "facade"
        /\ lastGet.facade = Some(Facade(Join(Capitalize(DeclaredModels[lastGet.model].name)), lastGet.model))

CanonicalSpelling(s) ==
    LET hex == Lower(UuidCleanHex(s))
    IN  <<hex[1], "-">> \o SubSeq(hex, 2, Len(hex))

\* C5: identifier normalisation is idempotent and deterministic: normalising a
\* result returns it unchanged, the same input always yields the same UUID, a
\* UUID is returned as it is and a string that parses as a UUID yields the UUID
\* it spells.
C5_NormalizeIdempotent ==
    /\ (uOut # NoUuid) => uOut.kind = "UUID"
    /\ (uAgain # NoUuid) => uAgain = uOut
    /\ \A p \in uLog, q \in uLog : p[1] = q[1] => p[2] = q[2]
    /\ (uOut # NoUuid /\ uIn.kind = "UUID") => uOut = uIn
    /\ (uOut # NoUuid /\ uIn.kind = "str" /\ ParsesAsUuid(uIn.str)) =>
            UuidStr(uOut) = CanonicalSpelling(uIn.str)

\* A string that is no UUID was hashed, and the hash normalised again.
C5_Witness ==
    /\ uIn.kind = "str"
    /\ ~ParsesAsUuid(uIn.str)
    /\ uIn.str # <<>>
    /\ uAgain # NoUuid

\* C6: any two model instances constructed without an explicit identifier have
\* different identifiers.
C6_DefaultIdentifiersDiffer ==
    \A i \in DOMAIN objs, j \in DOMAIN objs :
        (i < j /\ F_uuid \notin objs[i].fields_set /\ F_uuid \notin objs[j].fields_set)
            => objs[i].uuid # objs[j].uuid

\* C7: insert, insert_many, replace and update validate every passed object
\* before any network call: when an object fails validation no write is issued,
\* not even for the objects before it.
C7_NoWriteOnInvalidObject ==
    (lastOp.op \in {"insert", "insert_many", "replace", "update"}
        /\ \E i \in DOMAIN lastOp.args : ~model_validate(DocFacade.model, lastOp.args[i]))
        => (lastOp.calls = <<>> /\ lastOp.outcome = "ValidationError")

\* insert_many was given a valid object followed by an invalid one.
C7_Witness ==
    /\ lastOp.op = "insert_many"
    /\ Len(lastOp.args) = 2
    /\ model_validate(DocFacade.model, lastOp.args[1])
    /\ ~model_validate(DocFacade.model, lastOp.args[2])
    /\ lastOp.outcome = "ValidationError"

\* C8: each call of a terminal verb issues exactly one Search call, whether the
\* call succeeds or fails.
C8_OneSearchPerVerb ==
    /\ nSearch = Len(verbsCalled)
    /\ (lastCall.verb # "none") => Len(lastCall.requests) = 1

\* Two terminal calls on one builder, the second of which failed.
C8_Witness ==
    /\ Len(verbsCalled) = 2
    /\ nSearch = 2
    /\ lastCall.outcome = "WeaviateGRPCException"

\* The query modes a search request has set.
ActiveModes(request) ==
    {m \in {"near_vector", "near_object", "bm25", "hybrid"} :
        CASE m = "near_vector" -> request.near_vector # None
          [] m = "near_object" -> request.near_object # None
          [] m = "bm25"        -> request.bm25_search # None
          [] m = "hybrid"      -> request.hybrid_search # None}

\* C9 as stated: in every search request at most one query mode is active, and
\* it is the mode of the terminal verb just called, after any sequence of
\* terminal verb calls on the same builder.
C9_OneModePerRequest ==
    (lastCall.verb # "none") =>
        /\ Cardinality(ActiveModes(lastCall.requests[1])) <= 1
        /\ ActiveModes(lastCall.requests[1]) = {lastCall.verb} \ {"get"}

\* C9 as amended: the active modes of a request are exactly the modes of the
\* terminal verbs called on the builder so far, get contributing none; so the
\* first request of a fresh builder has at most one mode, that of its verb.
C9_ModesOfVerbsCalled ==
    (lastCall.verb # "none") =>
        /\ ActiveModes(lastCall.requests[1]) = Range(verbsCalled) \ {"get"}
        /\ (Len(verbsCalled) = 1 =>
                /\ Cardinality(ActiveModes(lastCall.requests[1])) <= 1
                /\ ActiveModes(lastCall.requests[1]) = {lastCall.verb} \ {"get"})

\* hybrid was called on a builder that had run bm25: both modes are set.
C9_Witness ==
    /\ verbsCalled = <<"bm25", "hybrid">>
    /\ ActiveModes(lastCall.requests[1]) = {"bm25", "hybrid"}

\* C10: any failure during a terminal call is surfaced as the one
\* search-execution error carrying the underlying detail message, and the call
\* either returns the full list of results or raises.
C10_FailuresAreWrapped ==
    (lastCall.verb # "none") =>
        /\ lastCall.outcome \in {"ok", "WeaviateGRPCException"}
        /\ (lastCall.outcome = "WeaviateGRPCException" => lastCall.detail # None)
        /\ (lastCall.outcome = "ok") = (lastCall.result # None)

\* The field of a MetadataReturn that answers a field of MetadataQuery.
ReturnField(out, f) ==
    CASE f = "uuid"                  -> out.id
      [] f = "vector"                -> out.vector
      [] f = "distance"              -> out.distance
      [] f = "certainty"             -> out.certainty
      [] f = "creation_time_unix"    -> out.creationTimeUnix
      [] f = "last_update_time_unix" -> out.lastUpdateTimeUnix
      [] f = "score"                 -> out.score
      [] f = "explain_score"         -> out.explainScore

Requested(meta, f) == meta # None /\ f \in meta[1]

\* C11: a metadata field that was not requested is null in the returned
\* Metadata, whatever the row carries; a null request yields an all-null
\* Metadata.
C11_UnrequestedFieldsAreNull ==
    (mdOut # None) =>
        \A f \in MetadataFields : ~Requested(mdMeta, f) => ReturnField(mdOut[1], f) = None

\* Only last_update_time_unix was requested of a row that carries everything:
\* the time is there and the uuid is null.
C11_Witness ==
    /\ mdOut # None
    /\ mdMeta = Some({"last_update_time_unix"})
    /\ mdProps = PropsAllPresent
    /\ mdOut[1].lastUpdateTimeUnix # None
    /\ mdOut[1].id = None

\* Whether the wire carries a value for the field: the companion flag of the
\* six optional scalars, a vector with elements, an id that is not empty.
OnWire(props, f) ==
    CASE f = "uuid"                  -> props.id # ""
      [] f = "vector"                -> Len(props.vector) > 0
      [] f = "distance"              -> props.distance_present
      [] f = "certainty"             -> props.certainty_present
      [] f = "creation_time_unix"    -> props.creation_time_unix_present
      [] f = "last_update_time_unix" -> props.last_update_time_unix_present
      [] f = "score"                 -> props.score_present
      [] f = "explain_score"         -> props.explain_score_present

RECURSIVE FollowsRow(_, _)
FollowsRow(d, row) ==
    /\ \A n \in DOMAIN row.non_ref_properties : d[n] = row.non_ref_properties[n]
    /\ \A k \in DOMAIN row.ref_props :
          LET ref == row.ref_props[k]
          IN  /\ Len(d[ref.prop_name]) = Len(ref.properties)
              /\ \A j \in DOMAIN ref.properties :
                    FollowsRow(d[ref.prop_name][j].result, ref.properties[j])

\* C13: the list a terminal verb returns has one entry per row of the reply, the
\* i-th entry made from the i-th row, and the same holds for each nested list of
\* linked objects.
C13_ResultsInReplyOrder ==
    (lastCall.verb # "none" /\ lastCall.outcome = "ok") =>
        LET rows == lastCall.reply[1].results
            out  == lastCall.result[1]
        IN  /\ Len(out) = Len(rows)
            /\ \A i \in DOMAIN rows : FollowsRow(out[i].result, rows[i].properties)

\* A reply of two rows, the first with two linked objects under grp, was
\* converted: 'deep' before 'some', and under grp 'H' before 'G'.
C13_Witness ==
    /\ lastCall.outcome = "ok"
    /\ lastCall.reply = Some(SearchResponse(<<DeepRow, PlainRow>>))
    /\ lastCall.result[1][1].result["name"] = "'deep'"
    /\ lastCall.result[1][2].result["name"] = "'some'"
    /\ lastCall.result[1][1].result["grp"][1].result["name"] = "'H'"
    /\ lastCall.result[1][1].result["grp"][2].result["name"] = "'G'"

\* The Metadata out answers the request meta on the additional properties
\* props: null where not requested; where requested, the uuid of the wire, and
\* any other field exactly when the wire carries it.
MetadataAnswers(out, props, meta) ==
    \A f \in MetadataFields :
        IF ~Requested(meta, f) THEN ReturnField(out, f) = None
        ELSE IF f = "uuid" THEN out.id = Some(props.id)
        ELSE (ReturnField(out, f) # None) <=> OnWire(props, f)

\* The LinkTo on the reference n among the requested properties.
ProjectionOf(requested, n) == CHOOSE q \in requested : q.link /\ q.name = n

\* The converted properties d of a row are the row decoded with the requested
\* properties: its plain properties as they are, and under each reference one
\* result per linked object, decoded with the properties of that reference's
\* LinkTo and carrying the metadata that LinkTo requests.
RECURSIVE DecodedWith(_, _, _)
DecodedWith(d, row, requested) ==
    /\ DOMAIN d = DOMAIN row.non_ref_properties \cup {row.ref_props[k].prop_name : k \in DOMAIN row.ref_props}
    /\ \A n \in DOMAIN row.non_ref_properties : d[n] = row.non_ref_properties[n]
    /\ \A k \in DOMAIN row.ref_props :
          LET ref  == row.ref_props[k]
              link == ProjectionOf(requested, ref.prop_name)
          IN  /\ DOMAIN d[ref.prop_name] = DOMAIN ref.properties
              /\ \A j \in DOMAIN ref.properties :
                    /\ DecodedWith(d[ref.prop_name][j].result, ref.properties[j], link.properties)
                    /\ MetadataAnswers(d[ref.prop_name][j].metadata, ref.properties[j].metadata,
                                       link.metadata)

\* C14: when reconstruction completes, every row is decoded with the requested
\* properties: plain properties verbatim, linked objects recursively with the
\* projection of their reference, nested metadata by the request of that
\* projection and not by the top-level request.
C14_RowsDecodedWithTheirProjection ==
    (lastCall.verb # "none" /\ lastCall.outcome = "ok") =>
        \A i \in DOMAIN lastCall.result[1] :
            /\ DecodedWith(lastCall.result[1][i].result, lastCall.reply[1].results[i].properties,
                           grpc.default_props)
            /\ MetadataAnswers(lastCall.result[1][i].metadata,
                               lastCall.reply[1].results[i].additional_properties, grpc.metadata)

\* bm25 asked for uuid and last_update_time_unix at the top, uuid and distance
\* under grp, score under owner: the owner two levels down carries its score
\* and neither uuid nor update time, the group above it its uuid and distance.
C14_Witness ==
    /\ lastCall.verb = "bm25" /\ lastCall.outcome = "ok"
    /\ grpc.metadata = Some({"uuid", "last_update_time_unix"})
    /\ lastCall.reply = Some(SearchResponse(<<DeepRow, PlainRow>>))
    /\ LET group == lastCall.result[1][1].result["grp"][1]
           owner == group.result["owner"][1]
       IN  /\ owner.result["name"] = "'O'"
           /\ owner.metadata.score = Some("0.3")
           /\ owner.metadata.id = None
           /\ owner.metadata.lastUpdateTimeUnix = None
           /\ group.metadata.id = Some("u1")
           /\ group.metadata.distance = Some("0.1")
           /\ group.metadata.lastUpdateTimeUnix = None

\* C15: with_tenant and with_consistency_level leave the facade they are called
\* on as it was: every write issued so far went out with the tenant and the
\* consistency level its facade has now, whatever was rebound since, and every
\* facade is still of the collection and model of the first.
C15_RebindingLeavesTheOriginal ==
    /\ \A k \in DOMAIN scopeOps :
          /\ scopeOps[k].tenant = facades[scopeOps[k].facade].tenant
          /\ scopeOps[k].consistency_level = facades[scopeOps[k].facade].consistency_level
    /\ \A i \in DOMAIN facades :
          facades[i].name = facades[1].name /\ facades[i].model = facades[1].model

\* The first facade wrote, was rebound to another tenant, and wrote again: both
\* writes carry its own tenant, not the tenant of the facade made from it.
C15_Witness ==
    /\ Len(facades) >= 2 /\ Len(scopeOps) = 2
    /\ facades[2].tenant # facades[1].tenant
    /\ scopeOps[1].facade = 1 /\ scopeOps[1].made = 1
    /\ scopeOps[2].facade = 1 /\ scopeOps[2].made >= 2
    /\ scopeOps[2].tenant = facades[1].tenant
    /\ scopeOps[2].tenant = scopeOps[1].tenant

\* C16: every wire object of a create (insert, and each element of
\* insert_many) carries the identifier of its instance, and carries the vector
\* exactly when the vector of the instance is not null.
C16_CreateCarriesIdAndVector ==
    (lastOp.op \in {"insert", "insert_many"} /\ lastOp.outcome = "ok") =>
        LET sent == lastOp.calls[1].objs
        IN  /\ Len(sent) = Len(lastOp.args)
            /\ \A k \in DOMAIN sent :
                  /\ sent[k].id = Some(UuidStr(lastOp.args[k].uuid))
                  /\ sent[k].vector = lastOp.args[k].vector

\* C17: decoding gives every reference field of the payload the list of what
\* follows the last slash of its beacons, in order, whatever that is; so the
\* identifier list the instance was stored with comes back, however the remote
\* spells the beacons, and a reference field the payload lacks keeps its default.
C17_ReferencesDecodeToIdentifiers ==
    (decOut # None /\ ~decOut[1].raised) =>
        \A f \in get_ref_fields(decObj[1].cls) :
            /\ decOut[1].data[1].vals[f] = decObj[1].vals[f]
            /\ (f \in DOMAIN decWire[1].properties) = (decObj[1].vals[f] # None)
            /\ f \notin DOMAIN decWire[1].properties
                  => decOut[1].data[1].vals[f] = FieldOf(decObj[1].cls, f).default

\* Two identifiers came back under another host's authority, in their order.
C17_Witness ==
    /\ decOut # None /\ ~decOut[1].raised
    /\ decObj[1].cls = "Doc"
    /\ decObj[1].vals[F_grp] = Some(<<"u2", "u1">>)
    /\ decWire[1].properties[F_grp][1][1].beacon = BeaconUri("other.host:8080", "Group", "u2")
    /\ decOut[1].data[1].vals[F_grp] = Some(<<"u2", "u1">>)

\* Equality of two instances of a model: the class and every field value, the
\* uuid and the vector among them.
SameInstance(a, b) ==
    /\ a.cls = b.cls /\ a.uuid = b.uuid /\ a.vector = b.vector /\ a.vals = b.vals

\* C18: an instance of a model with plain fields only, inserted and decoded
\* from the stored object with the same model, comes back equal to itself,
\* identifier included.
C18_PlainRoundTrip ==
    (decOut # None /\ get_ref_fields(decObj[1].cls) = {}) =>
        /\ ~decOut[1].raised
        /\ SameInstance(decOut[1].data[1], decObj[1])

\* The data type the mapping table gives an annotation once an Optional around
\* it is taken off: arrays keep their array type.
MappedDataType(python_type) ==
    CASE python_type \in {"str", "Optional[str]", "Union[None, str]"} -> "text"
      [] python_type \in {"int", "Optional[int]"} -> "int"
      [] python_type \in {"List[str]", "Optional[List[str]]"} -> "text[]"
      [] python_type \in {"List[int]"} -> "int[]"

\* C19: type_to_dict emits exactly one schema property per declared field: a
\* plain field of type T or Optional[T] with the data type mapped from T, an
\* array field List[T] with the array data type of T, a reference field with
\* the resolved name of its target; the overrides of a PropertyConfig are
\* merged into plain fields only.
C19_SchemaPropertyPerField ==
    (schemaOut # None) =>
        LET fields == DeclaredModels[schemaModel].fields
            out    == schemaOut[1]
        IN  /\ Len(out) = Len(fields)
            /\ \A i \in DOMAIN fields :
                  \E k \in DOMAIN out :
                      /\ out[k].name = Capitalize(fields[i].name)
                      /\ \A k2 \in DOMAIN out : out[k2].name = out[k].name => k2 = k
                      /\ IF fields[i].meta.kind = "ReferenceTo"
                         THEN /\ out[k].dataType = <<Join(Capitalize(Lower(fields[i].meta.target.name)))>>
                              /\ out[k].config = {}
                         ELSE /\ out[k].dataType = <<MappedDataType(fields[i].type)>>
                              /\ out[k].config = fields[i].meta.cfg

\* C20: a reference target resolves to capitalize(lower(name)) whether it is a
\* type or a string, a type and the string of its name resolve alike, and the
\* resolved name resolves to itself.
C20_TargetNameResolution ==
    (refName # None) =>
        /\ refName[1] = Capitalize(Lower(refType.name))
        /\ refName[1] = ReferenceToName(TypeRef(refType.name))
        /\ refName[1] = ReferenceToName(StrRef(refType.name))
        /\ (refAgain # None => refAgain = refName)

\* The string rG1 was resolved to Rg1, and Rg1 to itself.
C20_Witness ==
    /\ refType = StrRef(<<"r", "G", "1">>)
    /\ refName = Some(<<"R", "g", "1">>)
    /\ refAgain = Some(<<"R", "g", "1">>)

\* C21: a terminal verb leaves the builder's collection name and tenant as
\* they were, and every search request it issues carries exactly that name
\* and that tenant: a query through a builder bound to one tenant is
\* addressed to that tenant and to no other.
C21_RequestsCarryBoundScope ==
    [][Len(verbsCalled') > Len(verbsCalled) =>
          /\ grpc'.name = grpc.name
          /\ grpc'.tenant = grpc.tenant
          /\ \A i \in DOMAIN lastCall'.requests :
                /\ lastCall'.requests[i].class_name = grpc.name
                /\ lastCall'.requests[i].tenant = grpc.tenant]_vars

\* A second terminal call on a builder bound to tenant T1 has sent its request.
C21_Witness ==
    /\ Len(verbsCalled) = 2
    /\ lastCall.verb = "bm25"
    /\ grpc.tenant = Some("T1")
    /\ Len(lastCall.requests) = 1
    /\ lastCall.requests[1].tenant = Some("T1")
    /\ lastCall.requests[1].class_name = DocFacade.name

\* C22: insert_many, of the typed and of the untyped facade, issues a single
\* batch call holding one wire object per input object in input order, and
\* hands back one outcome per input object: the object's UUID or an Errors
\* record. No input object is dropped.
C22_BatchIsOneCallItemByItem ==
    (lastOp.op \in {"insert_many", "insert_many_untyped"} /\ lastOp.outcome = "ok") =>
        /\ Len(lastOp.calls) = 1
        /\ lastOp.calls[1].call = "_insert_many"
        /\ LET sent == lastOp.calls[1].objs
               back == lastOp.returned[1]
           IN  /\ Len(sent) = Len(lastOp.args)
               /\ Len(back) = Len(lastOp.args)
               /\ \A k \in DOMAIN lastOp.args :
                     /\ sent[k].class = DocFacade.name
                     /\ sent[k].id # None
                     /\ IF lastOp.op = "insert_many"
                        THEN /\ sent[k].id = Some(UuidStr(lastOp.args[k].uuid))
                             /\ sent[k].properties[F_x] = lastOp.args[k].vals[F_x]
                        ELSE /\ lastOp.args[k].uuid # None =>
                                    sent[k].id = Some(UuidStr(lastOp.args[k].uuid[1]))
                             /\ sent[k].properties[F_x] = lastOp.args[k].data[F_x]
                     /\ \/ back[k] = [kind |-> "UUID", value |-> sent[k].id[1]]
                        \/ back[k].kind = "Errors"

\* insert_many of two objects that differ in x, of which the remote took the
\* first and refused the second.
C22_Witness ==
    /\ lastOp.op = "insert_many"
    /\ lastOp.outcome = "ok"
    /\ Len(lastOp.args) = 2
    /\ lastOp.args[1].vals[F_x] # lastOp.args[2].vals[F_x]
    /\ lastOp.returned[1][1].kind = "UUID"
    /\ lastOp.returned[1][2].kind = "Errors"

\* C23: the model get_dynamic synthesizes has a field for every property of
\* the remote's list, and each of these fields is optional (not required) with
\* a null default.
C23_DynamicFieldsOptionalNull ==
    (dynOut # None /\ dynOut[1].outcome = "ok") =>
        LET model == dynOut[1].model[1]
            props == dynResp[1].properties
        IN  \A i \in DOMAIN props :
                /\ props[i].name \in DOMAIN model.fields
                /\ ~model.fields[props[i].name].required
                /\ model.fields[props[i].name].default = None

\* A model synthesized from two properties over a class without fields of its
\* own was instantiated with no data: both fields are null.
C23_Witness ==
    /\ dynOut # None /\ dynOut[1].outcome = "ok"
    /\ Len(dynResp[1].properties) = 2
    /\ dynObj # None /\ dynObj[1].outcome = "ok"
    /\ DOMAIN dynObj[1].vals = {F_a, F_b}
    /\ \A n \in {F_a, F_b} : dynObj[1].vals[n] = None

\* The unions of one type and null among the annotations, with that type.
UnionWithNull ==
    ("Optional[str]" :> "str") @@ ("Optional[int]" :> "int")
    @@ ("Optional[List[str]]" :> "List[str]") @@ ("Union[None, str]" :> "str")

\* C24: _remove_optional_type returns a type without type arguments unchanged,
\* and for a union of T and null it returns T, wherever the null stands in the
\* union; it never returns the null type.
C24_UnwrapGivesTheNonNullMember ==
    (unwrapOut # None) =>
        /\ TypingGetArgs(unwrapIn[1]) = <<>> => unwrapOut[1] = unwrapIn[1]
        /\ unwrapIn[1] \in DOMAIN UnionWithNull => unwrapOut[1] = UnionWithNull[unwrapIn[1]]
        /\ unwrapOut[1] # "NoneType"

\* C25: get_ref_fields and get_non_ref_fields are disjoint, hold no built-in
\* field, and together hold every declared field of the model, whatever the
\* fields are annotated with.
C25_ClassificationIsAPartition ==
    (introRef # None /\ introPlain # None) =>
        /\ introRef[1] \cap introPlain[1] = {}
        /\ (introRef[1] \cup introPlain[1]) \cap BasePropertyFields = {}
        /\ introRef[1] \cup introPlain[1] = DeclaredFieldNames(introModel)

\* The classes a schema dict lists, under both class types.
ClassCount(schema) ==
    (IF schema.things # None THEN Len(schema.things[1]) ELSE 0)
    + (IF schema.actions # None THEN Len(schema.actions[1]) ELSE 0)

\* C26: at every moment of create_schema, no class creation call comes after a
\* property creation call, a property creation call is made only once every
\* class of the schema, things and actions, was created with status 200, and
\* a call answered with another status is the last call made: when a class
\* creation fails no property creation call is ever issued.
C26_ClassesBeforeProperties ==
    /\ \A i, j \in DOMAIN lgCalls :
          (i < j) => ~(lgCalls[i].call.kind = "property" /\ lgCalls[j].call.kind = "class")
    /\ \A j \in DOMAIN lgCalls :
          lgCalls[j].call.kind = "property" =>
              /\ Cardinality({i \in DOMAIN lgCalls : lgCalls[i].call.kind = "class"}) = ClassCount(lgSchema)
              /\ \A i \in DOMAIN lgCalls : lgCalls[i].call.kind = "class" => lgCalls[i].status_code = 200
    /\ \A i \in DOMAIN lgCalls :
          lgCalls[i].status_code # 200 =>
              /\ i = Len(lgCalls)
              /\ lgOutcome = Some("UnexpectedStatusCodeException")

\* The schema has a thing and an action, both with a property; the thing was
\* created, the creation of the action failed, and create_schema has raised
\* without a property call.
C26_Witness ==
    /\ lgSchema.given /\ lgSchema.things # None /\ lgSchema.actions # None
    /\ Len(lgSchema.things[1]) = 1 /\ Len(lgSchema.things[1][1].properties) = 1
    /\ Len(lgSchema.actions[1]) = 1 /\ Len(lgSchema.actions[1][1].properties) = 1
    /\ Len(lgCalls) = 2
    /\ lgCalls[1].call.path = <<"schema", "things">> /\ lgCalls[1].status_code = 200
    /\ lgCalls[2].call.path = <<"schema", "actions">> /\ lgCalls[2].status_code = 422
    /\ lgPc = "done"
    /\ lgOutcome = Some("UnexpectedStatusCodeException")

\* The exception add_references_in_batch has for a status code of its own.
DedicatedException ==
    (401 :> "UnauthorizedRequest401Exception") @@ (403 :> "ForbiddenRequest403Exception")
    @@ (422 :> "SemanticError422Exception") @@ (500 :> "ServerError500Exception")

\* C27: add_references_in_batch makes no network call for an empty batch and
\* one call otherwise; it returns normally on status 200, raises the dedicated
\* exception on 401, 403, 422 and 500, and on every other status code raises
\* UnexpectedStatusCodeException carrying the response body.
C27_BatchStatusHandling ==
    (brOutcome # None) =>
        LET out == brOutcome[1]
        IN  /\ (brBatch = <<>>) => (brCalls = <<>> /\ out.raised = None)
            /\ (brBatch # <<>>) => Len(brCalls) = 1
            /\ (brBatch # <<>> /\ out.answer.kind = "response") =>
                  IF out.answer.status_code = 200 THEN out.raised = None
                  ELSE IF out.answer.status_code \in DOMAIN DedicatedException
                  THEN out.raised = Some(DedicatedException[out.answer.status_code])
                  ELSE /\ out.raised = Some("UnexpectedStatusCodeException")
                       /\ out.carries = Some(out.answer.json)

NearVerbs == {"near_vector", "near_object"}

\* C28 as stated: a request holds nothing that only an earlier terminal call
\* on the same builder supplied. offset and after are arguments of get alone,
\* autocut is no argument of get, and the near parameters with their
\* certainty and distance are arguments of the near verbs alone.
C28_RequestFromCallAlone ==
    (lastCall.verb # "none") =>
        LET req == lastCall.requests[1]
        IN  /\ (lastCall.verb # "get") => (req.offset = None /\ req.after = "")
            /\ (lastCall.verb = "get") => req.autocut = None
            /\ (lastCall.verb \notin NearVerbs) => (req.near_vector = None /\ req.near_object = None)

\* C28 as amended: on a fresh builder the request holds nothing but what the
\* call and the construction supplied; on a builder used before, every field
\* the verb does not assign goes out with the value the builder held before the
\* call, and the requested properties of earlier calls stay requested.
C28_UnassignedFieldsCarryOver ==
    [][Len(verbsCalled') > Len(verbsCalled) =>
          LET v   == lastCall'.verb
              req == lastCall'.requests[1]
          IN  /\ (v # "get") =>
                    /\ req.offset = grpc.offset
                    /\ req.after = (IF grpc.after # None THEN grpc.after[1] ELSE "")
              /\ (v = "get") => req.autocut = grpc.autocut
              /\ (v \in NearVerbs) => req.limit = grpc.limit
              /\ (v \notin NearVerbs) =>
                    /\ req.near_vector = NearVectorParams(grpc)
                    /\ req.near_object = NearObjectParams(grpc)
              /\ grpc.default_props \subseteq grpc'.default_props
              /\ req.properties = convert_references_to_grpc(grpc'.default_props)
              /\ (verbsCalled = <<>>) =>
                    /\ (v # "get") => (req.offset = None /\ req.after = "")
                    /\ (v = "get") => req.autocut = None
                    /\ (v \in NearVerbs) => req.limit = None
                    /\ (v \notin NearVerbs) => (req.near_vector = None /\ req.near_object = None)]_vars

\* bm25 was called on a builder that had run get with an offset and a cursor:
\* the bm25 request carries both.
C28_Witness ==
    /\ verbsCalled = <<"get", "bm25">>
    /\ lastCall.requests[1].offset = Some("2")
    /\ lastCall.requests[1].after = "u1"
    /\ lastCall.requests[1].bm25_search # None

\* C29: result reconstruction completes for every response: every reference
\* property name of a result row has an entry in the projection tree built
\* from the requested properties, however the reference was requested and
\* also when it was not requested, and the terminal call returns its results.
C29_ReconstructionCompletes ==
    (lastCall.verb # "none" /\ lastCall.reply[1].kind = "SearchResponse") =>
        /\ \A i \in DOMAIN lastCall.reply[1].results :
              LET refs == lastCall.reply[1].results[i].properties.ref_props
              IN  \A k \in DOMAIN refs :
                      refs[k].prop_name \in DOMAIN ref_props_return_meta(grpc.default_props)
        /\ lastCall.outcome = "ok"
        /\ Len(lastCall.result[1]) = Len(lastCall.reply[1].results)

\* The property names type_to_dict emits for a model.
SchemaNames(model) == {type_to_dict(model)[k].name : k \in DOMAIN type_to_dict(model)}

\* C30: every key of a properties payload built by props_to_dict is, letter
\* for letter and case for case, the name of a property type_to_dict emits for
\* the model of the instance.
C30_PayloadKeysAreSchemaNames ==
    (lastOp.op \in {"insert", "insert_many", "replace", "update"} /\ lastOp.outcome = "ok") =>
        \A k \in DOMAIN lastOp.calls[1].objs :
            DOMAIN lastOp.calls[1].objs[k].properties \subseteq SchemaNames(lastOp.args[k].cls)

====
